---- MODULE Spec2Model ----
(***************************************************************************)
(* TreeStore (genro-treestore): the ordered, attributed tree container,    *)
(* its path engine and the auto-labelling builder, as a state machine over *)
(* a heap of TreeStore and TreeStoreNode objects.                          *)
(*                                                                         *)
(* Python strings (labels, paths, _position directives, attribute names)   *)
(* are sequences of one-character strings, so that split, startswith, int  *)
(* and isdigit are computed on the text as the code computes them.         *)
(***************************************************************************)
EXTENDS Integers, Sequences, FiniteSets, TLC

VARIABLES store, node, last, nops, issued

vars == <<store, node, last, nops, issued>>

(***************************************************************************)
(* Bounds of the model.                                                    *)
(***************************************************************************)
MaxOps == 2
MaxBuilderOps == 5
MaxGrammarOps == 4
MaxBuilders == 3
MaxCheckOps == 4
MaxCheckStores == 3

(***************************************************************************)
(* Python values.  None, an int, or a reference to a TreeStore object.     *)
(***************************************************************************)
None == [t |-> "none", v |-> 0]
IntV(i) == [t |-> "int", v |-> i]
StoreV(c) == [t |-> "store", v |-> c]

NoRef == 0
Root == 1

(***************************************************************************)
(* Python str primitives on character sequences.                           *)
(***************************************************************************)
Digits == {"0", "1", "2", "3", "4", "5", "6", "7", "8", "9"}

DigitVal(c) ==
  CASE c = "0" -> 0 [] c = "1" -> 1 [] c = "2" -> 2 [] c = "3" -> 3
    [] c = "4" -> 4 [] c = "5" -> 5 [] c = "6" -> 6 [] c = "7" -> 7
    [] c = "8" -> 8 [] c = "9" -> 9

Tail_n(s, n) == SubSeq(s, n + 1, Len(s))

startswith(s, p) == Len(s) >= Len(p) /\ SubSeq(s, 1, Len(p)) = p

isdigit(s) == Len(s) > 0 /\ \A i \in 1..Len(s) : s[i] \in Digits

RECURSIVE lstrip(_, _)
lstrip(s, c) == IF Len(s) > 0 /\ s[1] = c THEN lstrip(Tail(s), c) ELSE s

Contains(s, c) == \E i \in 1..Len(s) : s[i] = c

RECURSIVE DigitsVal(_)
DigitsVal(s) ==
  IF Len(s) = 0 THEN 0
  ELSE 10 * DigitsVal(SubSeq(s, 1, Len(s) - 1)) + DigitVal(s[Len(s)])

\* int(s) for text over letters, digits, '#', '-', '<', '>': an optional
\* single sign followed by one or more digits, anything else is a ValueError.
int_ok(s) == isdigit(s) \/ (Len(s) > 1 /\ s[1] = "-" /\ isdigit(Tail(s)))

int(s) == IF s[1] = "-" THEN 0 - DigitsVal(Tail(s)) ELSE DigitsVal(s)

\* str(i) for an int
DigitChar(d) ==
  CASE d = 0 -> "0" [] d = 1 -> "1" [] d = 2 -> "2" [] d = 3 -> "3" [] d = 4 -> "4"
    [] d = 5 -> "5" [] d = 6 -> "6" [] d = 7 -> "7" [] d = 8 -> "8" [] d = 9 -> "9"

RECURSIVE NatStr(_)
NatStr(i) == IF i < 10 THEN <<DigitChar(i)>> ELSE Append(NatStr(i \div 10), DigitChar(i % 10))

str(i) == IF i < 0 THEN <<"-">> \o NatStr(0 - i) ELSE NatStr(i)

\* s.strip() for blanks
RECURSIVE rstrip(_, _)
rstrip(s, c) == IF Len(s) > 0 /\ s[Len(s)] = c THEN rstrip(SubSeq(s, 1, Len(s) - 1), c) ELSE s

strip(s) == rstrip(lstrip(s, " "), " ")

\* s.split(c): always at least one part.
RECURSIVE split(_, _)
split(s, c) ==
  IF ~Contains(s, c) THEN <<s>>
  ELSE LET i == CHOOSE k \in 1..Len(s) : s[k] = c /\ \A j \in 1..(k - 1) : s[j] # c
       IN <<SubSeq(s, 1, i - 1)>> \o split(Tail_n(s, i), c)

\* s.rsplit(c, 1) when c occurs in s: the text before and after the last c.
rsplit1(s, c) ==
  LET i == CHOOSE k \in 1..Len(s) : s[k] = c /\ \A j \in (k + 1)..Len(s) : s[j] # c
  IN <<SubSeq(s, 1, i - 1), Tail_n(s, i)>>

(***************************************************************************)
(* Python list and dict primitives.  A dict is the sequence of its         *)
(* <<key, value>> items in insertion order.                                *)
(***************************************************************************)
\* set(s) for a list
Range_of(s) == {s[i] : i \in 1..Len(s)}

\* list.insert(i, x): a negative index counts from the end, and the index
\* is clamped to 0..len.
list_insert(s, i, x) ==
  LET j == IF i < 0 THEN i + Len(s) ELSE i
      k == IF j < 0 THEN 0 ELSE IF j > Len(s) THEN Len(s) ELSE j
  IN SubSeq(s, 1, k) \o <<x>> \o Tail_n(s, k)

list_has(s, x) == \E i \in 1..Len(s) : s[i] = x

\* list.index(x), 0-based, for x in s.
list_index(s, x) == (CHOOSE i \in 1..Len(s) : s[i] = x /\ \A j \in 1..(i - 1) : s[j] # x) - 1

\* list.remove(x) for x in s: drops the first occurrence.
list_remove(s, x) ==
  LET i == list_index(s, x) + 1 IN SubSeq(s, 1, i - 1) \o Tail_n(s, i)

dict_has(d, k) == \E i \in 1..Len(d) : d[i][1] = k

dict_get(d, k) == d[CHOOSE i \in 1..Len(d) : d[i][1] = k][2]

dict_keys(d) == [i \in 1..Len(d) |-> d[i][1]]

dict_values(d) == [i \in 1..Len(d) |-> d[i][2]]

\* d[k] = v: an existing key keeps its place, a new key goes last.
dict_set(d, k, v) ==
  IF dict_has(d, k) THEN [i \in 1..Len(d) |-> IF d[i][1] = k THEN <<k, v>> ELSE d[i]]
  ELSE Append(d, <<k, v>>)

\* del d[k] for k in d.
dict_del(d, k) ==
  LET i == CHOOSE j \in 1..Len(d) : d[j][1] = k IN SubSeq(d, 1, i - 1) \o Tail_n(d, i)

\* d.update(e)
RECURSIVE dict_update(_, _)
dict_update(d, e) ==
  IF Len(e) = 0 THEN d ELSE dict_update(dict_set(d, e[1][1], e[1][2]), Tail(e))

\* dict equality ignores insertion order.
dict_as_map(d) == {<<d[i][1], d[i][2]>> : i \in 1..Len(d)}

(***************************************************************************)
(* The heap.  store[c] is a TreeStore object, node[n] a TreeStoreNode.     *)
(***************************************************************************)
Heap == [store |-> store, node |-> node]

\* The _grammar of a builder made without one, and of a plain TreeStore.
NoGrammar == [none |-> TRUE, tag_to_config |-> <<>>, groups |-> <<>>]

\* TreeStore(parent=None): the object as __init__ leaves it.
TreeStore_init(cls) ==
  [nodes |-> <<>>, order |-> <<>>, parent |-> NoRef, cls |-> cls, tag_counters |-> <<>>,
   grammar |-> NoGrammar]

\* TreeStoreNode(label, attr, value, parent, tag)
TreeStoreNode_init(label, attr, value, parent, tag) ==
  [label |-> label, attr |-> attr, value |-> value, parent |-> parent, tag |-> tag]

NoTag == <<>>

new_store(h, cls) == [h EXCEPT !.store = Append(@, TreeStore_init(cls))]

new_node(h, label, attr, value, parent, tag) ==
  [h EXCEPT !.node = Append(@, TreeStoreNode_init(label, attr, value, parent, tag))]

is_branch(h, n) == h.node[n].value.t = "store"

(***************************************************************************)
(* Outcome of a call: err is "" when it returned, else the exception class;*)
(* why tells the KeyError messages of the traversal apart.                 *)
(***************************************************************************)
Ok(h) == [h |-> h, err |-> "", why |-> "", ret |-> NoRef]
Raise(h, err, why) == [h |-> h, err |-> err, why |-> why, ret |-> NoRef]
Return(h, ret) == [h |-> h, err |-> "", why |-> "", ret |-> ret]

\* The _position argument when it is None.
NonePos == <<"<None>">>

(***************************************************************************)
(* Path utilities                                                          *)
(***************************************************************************)
\* (is_positional, index_or_label); int() raises on a doubled sign.
_parse_path_segment(segment) ==
  IF startswith(segment, <<"#">>) /\ isdigit(lstrip(Tail(segment), "-"))
  THEN IF int_ok(Tail(segment))
       THEN [err |-> "", is_pos |-> TRUE, key |-> int(Tail(segment))]
       ELSE [err |-> "ValueError", is_pos |-> TRUE, key |-> 0]
  ELSE [err |-> "", is_pos |-> FALSE, key |-> segment]

_get_node_by_position(h, c, index) ==
  LET n == Len(h.store[c].order)
      i == IF index < 0 THEN n + index ELSE index
  IN IF i < 0 \/ i >= n THEN Raise(h, "KeyError", "range")
     ELSE Return(h, h.store[c].order[i + 1])

\* 0-based position of the first node of _order carrying the label.
_index_of(h, c, label) ==
  LET o == h.store[c].order
  IN IF \E i \in 1..Len(o) : h.node[o[i]].label = label
     THEN Return(h, (CHOOSE i \in 1..Len(o) :
                        /\ h.node[o[i]].label = label
                        /\ \A j \in 1..(i - 1) : h.node[o[j]].label # label) - 1)
     ELSE Raise(h, "KeyError", "label")

order_insert(h, c, idx, n) == [h EXCEPT !.store[c].order = list_insert(@, idx, n)]

_insert_node_at(h1, c, n, position) ==
  LET len == Len(h1.store[c].order)
  IN IF position = NonePos \/ position = <<">">>
     THEN Ok(order_insert(h1, c, len, n))
     ELSE IF position = <<"<">>
     THEN Ok(order_insert(h1, c, 0, n))
     ELSE IF startswith(position, <<"<", "#">>)
     THEN IF ~int_ok(Tail_n(position, 2)) THEN Raise(h1, "ValueError", "int")
          ELSE LET idx == int(Tail_n(position, 2))
               IN Ok(order_insert(h1, c, IF idx < 0 THEN len + idx ELSE idx, n))
     ELSE IF startswith(position, <<">", "#">>)
     THEN IF ~int_ok(Tail_n(position, 2)) THEN Raise(h1, "ValueError", "int")
          ELSE LET idx == int(Tail_n(position, 2)) + 1
               IN Ok(order_insert(h1, c, IF idx < 0 THEN len + idx + 1 ELSE idx, n))
     ELSE IF startswith(position, <<"<">>)
     THEN LET r == _index_of(h1, c, Tail(position))
          IN IF r.err # "" THEN r ELSE Ok(order_insert(h1, c, r.ret, n))
     ELSE IF startswith(position, <<">">>)
     THEN LET r == _index_of(h1, c, Tail(position))
          IN IF r.err # "" THEN r ELSE Ok(order_insert(h1, c, r.ret + 1, n))
     ELSE IF startswith(position, <<"#">>)
     THEN IF ~int_ok(Tail(position)) THEN Raise(h1, "ValueError", "int")
          ELSE LET idx == int(Tail(position))
               IN Ok(order_insert(h1, c, IF idx < 0 THEN len + idx ELSE idx, n))
     ELSE Ok(order_insert(h1, c, len, n))

\* The label goes into _nodes first, then the node into _order.
_insert_node(h, c, n, position) ==
  _insert_node_at([h EXCEPT !.store[c].nodes = dict_set(@, h.node[n].label, n)],
                  c, n, position)

_remove_node(h, c, label) ==
  IF ~dict_has(h.store[c].nodes, label) THEN Raise(h, "KeyError", "label")
  ELSE LET n == dict_get(h.store[c].nodes, label)
           h1 == [h EXCEPT !.store[c].nodes = dict_del(@, label)]
       IN IF ~list_has(h1.store[c].order, n) THEN Raise(h1, "ValueError", "index")
          ELSE Return([h1 EXCEPT !.store[c].order = list_remove(@, n)], n)

(***************************************************************************)
(* _htraverse: walk every segment but the last, from store c.              *)
(***************************************************************************)
\* A faulty variant of the autocreate step, which puts the new branch first
\* in its container instead of last; C3 tells the two apart.
htraverse_autocreate_prepends(h, current, key) ==
  LET child_store == Len(h.store) + 1
      n == Len(h.node) + 1
      h1 == new_store(h, "TreeStore")
      h2 == new_node(h1, key, <<>>, StoreV(child_store), current, NoTag)
      h3 == [h2 EXCEPT !.store[child_store].parent = n]
  IN _insert_node(h3, current, n, <<"<">>).h

\* Lines 400-409: a missing label is created as an empty branch, appended.
htraverse_autocreate(h, current, key) ==
  LET child_store == Len(h.store) + 1
      n == Len(h.node) + 1
      h1 == new_store(h, "TreeStore")
      h2 == new_node(h1, key, <<>>, StoreV(child_store), current, NoTag)
      h3 == [h2 EXCEPT !.store[child_store].parent = n]
  IN _insert_node(h3, current, n, NonePos).h

\* Lines 424-429: a leaf met on the way becomes a branch.
htraverse_convert(h, n) ==
  LET child_store == Len(h.store) + 1
      h1 == new_store(h, "TreeStore")
      h2 == [h1 EXCEPT !.store[child_store].parent = n]
  IN [h2 EXCEPT !.node[n].value = StoreV(child_store)]

RECURSIVE htraverse_loop(_, _, _, _, _)
htraverse_loop(h, current, parts, i, autocreate) ==
  IF i >= Len(parts) THEN [Return(h, current) EXCEPT !.why = "done"]
  ELSE
    LET \* current = node.value, and on to the next part
        enter(h2, n) == htraverse_loop(h2, h2.node[n].value.v, parts, i + 1, autocreate)
        \* node = current._nodes[key]
        lookup(h1, key) == Return(h1, dict_get(h1.store[current].nodes, key))
        find(seg) ==
          IF seg.is_pos THEN _get_node_by_position(h, current, seg.key)
          ELSE IF ~dict_has(h.store[current].nodes, seg.key)
          THEN IF autocreate THEN lookup(htraverse_autocreate(h, current, seg.key), seg.key)
               ELSE Raise(h, "KeyError", "missing")
          ELSE lookup(h, seg.key)
        descend(found) ==
          IF found.err # "" THEN found
          ELSE IF ~is_branch(found.h, found.ret)
          THEN IF autocreate THEN enter(htraverse_convert(found.h, found.ret), found.ret)
               ELSE Raise(found.h, "KeyError", "leaf")
          ELSE enter(found.h, found.ret)
        step(seg) == IF seg.err # "" THEN Raise(h, seg.err, "int") ELSE descend(find(seg))
    IN step(_parse_path_segment(parts[i]))

\* ret is parent_store; the final label is the last part of the path.
_htraverse(h, c, path, autocreate) ==
  IF Len(path) = 0 THEN Return(h, c)
  ELSE htraverse_loop(h, c, split(path, "."), 1, autocreate)

final_label(path) ==
  LET last_of(parts) == parts[Len(parts)]
  IN IF Len(path) = 0 THEN <<>> ELSE last_of(split(path, "."))

(***************************************************************************)
(* Core API                                                                *)
(***************************************************************************)
\* node.value = new_value
set_value(h, n, value) == [h EXCEPT !.node[n].value = value]

\* A faulty variant of the update of an existing node, which replaces the
\* attributes by the supplied ones instead of merging; C6 tells the two apart.
set_item_existing_replaces_attr(h, parent_store, label, value, final_attr) ==
  LET n == dict_get(h.store[parent_store].nodes, label)
      h1 == IF value # None THEN set_value(h, n, value) ELSE h
      h2 == IF Len(final_attr) > 0 THEN [h1 EXCEPT !.node[n].attr = final_attr] ELSE h1
  IN IF is_branch(h2, n) THEN Return(h2, h2.node[n].value.v) ELSE Return(h2, parent_store)

\* Lines 483-493: the final node exists.
set_item_existing(h, parent_store, label, value, final_attr) ==
  LET n == dict_get(h.store[parent_store].nodes, label)
      h1 == IF value # None THEN set_value(h, n, value) ELSE h
      h2 == IF Len(final_attr) > 0
            THEN [h1 EXCEPT !.node[n].attr = dict_update(@, final_attr)] ELSE h1
  IN IF is_branch(h2, n) THEN Return(h2, h2.node[n].value.v) ELSE Return(h2, parent_store)

\* Lines 495-507: a new node, leaf when a value is given, else branch.
set_item_new(h, parent_store, label, value, final_attr, _position) ==
  IF value # None
  THEN LET n == Len(h.node) + 1
           h1 == new_node(h, label, final_attr, value, parent_store, NoTag)
           inserted(r) == IF r.err # "" THEN r ELSE Return(r.h, parent_store)
       IN inserted(_insert_node(h1, parent_store, n, _position))
  ELSE LET child_store == Len(h.store) + 1
           n == Len(h.node) + 1
           h1 == new_store(h, "TreeStore")
           h2 == new_node(h1, label, final_attr, StoreV(child_store), parent_store, NoTag)
           h3 == [h2 EXCEPT !.store[child_store].parent = n]
           inserted(r) == IF r.err # "" THEN r ELSE Return(r.h, child_store)
       IN inserted(_insert_node(h3, parent_store, n, _position))

set_item(h, c, path, value, final_attr, _position) ==
  LET final(t, label) ==
        IF t.err # "" THEN t
        ELSE IF dict_has(t.h.store[t.ret].nodes, label)
        THEN set_item_existing(t.h, t.ret, label, value, final_attr)
        ELSE set_item_new(t.h, t.ret, label, value, final_attr, _position)
  IN final(_htraverse(h, c, path, TRUE), final_label(path))

\* The node a path resolves to, for a path that resolves.
FinalNode(h, c, path) ==
  LET final(t, label) == dict_get(h.store[t.ret].nodes, label)
  IN final(_htraverse(h, c, path, FALSE), final_label(path))

get_node(h, c, path) ==
  IF Len(path) = 0 THEN Raise(h, "KeyError", "empty")
  ELSE LET final(t, label, seg) ==
             IF t.err # "" THEN t
             ELSE IF seg.err # "" THEN Raise(h, seg.err, "int")
             ELSE IF seg.is_pos THEN _get_node_by_position(h, t.ret, seg.key)
             ELSE IF dict_has(h.store[t.ret].nodes, label)
             THEN Return(h, dict_get(h.store[t.ret].nodes, label))
             ELSE Raise(h, "KeyError", "missing")
       IN final(IF Contains(path, ".") THEN _htraverse(h, c, path, FALSE) ELSE Return(h, c),
                final_label(path), _parse_path_segment(final_label(path)))

\* dict.get(k, default) on a node's attributes
attr_get(a, k, default) == IF dict_has(a, k) THEN dict_get(a, k) ELSE default

\* store[path]: the value, or the attribute when the path ends in ?attr.
getitem(h, c, path) ==
  LET has_attr == Contains(path, "?")
      node_path == IF has_attr THEN rsplit1(path, "?")[1] ELSE path
      read(r) ==
        IF r.err # "" THEN [r EXCEPT !.ret = None]
        ELSE IF has_attr
        THEN Return(h, attr_get(h.node[r.ret].attr, rsplit1(path, "?")[2], None))
        ELSE Return(h, h.node[r.ret].value)
  IN read(get_node(h, c, node_path))

\* get_item(path, default): as store[path], with every KeyError caught.
get_item(h, c, path, default) ==
  LET has_attr == Contains(path, "?")
      node_path == IF has_attr THEN rsplit1(path, "?")[1] ELSE path
      read(r) ==
        IF r.err = "KeyError" THEN [Return(h, default) EXCEPT !.why = r.why]
        ELSE IF r.err # "" THEN [r EXCEPT !.ret = None]
        ELSE IF has_attr
        THEN Return(h, attr_get(h.node[r.ret].attr, rsplit1(path, "?")[2], default))
        ELSE Return(h, h.node[r.ret].value)
  IN read(get_node(h, c, node_path))

\* A faulty variant of the attribute write, which resolves the node path with
\* autocreate as a value write does; C7 tells the two apart.
setitem_autocreates(h, c, path, value) ==
  IF Contains(path, "?")
  THEN LET write(r, n) ==
             IF r.err # "" THEN r
             ELSE Ok([r.h EXCEPT !.node[n].attr = dict_set(@, rsplit1(path, "?")[2], value)])
           resolved(r) == write(r, FinalNode(r.h, c, rsplit1(path, "?")[1]))
       IN resolved(set_item(h, c, rsplit1(path, "?")[1], None, <<>>, NonePos))
  ELSE [set_item(h, c, path, value, <<>>, NonePos) EXCEPT !.ret = NoRef]

\* store[path] = value
setitem(h, c, path, value) ==
  IF Contains(path, "?")
  THEN LET write(r) ==
             IF r.err # "" THEN r
             ELSE Ok([h EXCEPT !.node[r.ret].attr = dict_set(@, rsplit1(path, "?")[2], value)])
       IN write(get_node(h, c, rsplit1(path, "?")[1]))
  ELSE [set_item(h, c, path, value, <<>>, NonePos) EXCEPT !.ret = NoRef]

del_item(h, c, path) ==
  IF ~Contains(path, ".") THEN _remove_node(h, c, path)
  ELSE LET remove(t) == IF t.err # "" THEN t ELSE _remove_node(t.h, t.ret, final_label(path))
       IN remove(_htraverse(h, c, path, FALSE))

\* pop(path, default): the removed node's value, or default on a KeyError.
pop(h, c, path, default) ==
  LET removed(r) ==
        IF r.err = "KeyError" THEN [Return(r.h, default) EXCEPT !.why = r.why]
        ELSE IF r.err # "" THEN [r EXCEPT !.ret = None]
        ELSE Return(r.h, r.h.node[r.ret].value)
  IN removed(del_item(h, c, path))

clear(h, c) == Ok([h EXCEPT !.store[c].nodes = <<>>, !.store[c].order = <<>>])

(***************************************************************************)
(* walk: the (path, node) pairs the generator yields from position i of    *)
(* store c on, and the nodes the callback is called with.                  *)
(***************************************************************************)
RECURSIVE _walk_gen(_, _, _, _)
_walk_gen(h, c, prefix, i) ==
  IF i > Len(h.store[c].order) THEN <<>>
  ELSE LET n == h.store[c].order[i]
           path == IF Len(prefix) > 0 THEN prefix \o <<".">> \o h.node[n].label
                   ELSE h.node[n].label
       IN <<<<path, n>>>>
            \o (IF is_branch(h, n) THEN _walk_gen(h, h.node[n].value.v, path, 1) ELSE <<>>)
            \o _walk_gen(h, c, prefix, i + 1)

RECURSIVE walk_callback(_, _, _)
walk_callback(h, c, i) ==
  IF i > Len(h.store[c].order) THEN <<>>
  ELSE LET n == h.store[c].order[i]
       IN <<n>>
            \o (IF is_branch(h, n) THEN walk_callback(h, h.node[n].value.v, 1) ELSE <<>>)
            \o walk_callback(h, c, i + 1)

(***************************************************************************)
(* Construction from a list of tuples.  A tuple is <<label, value>> or     *)
(* <<label, value, attr>>; a value is a scalar or a nested list of tuples. *)
(***************************************************************************)
Scalar(v) == [kind |-> "scalar", v |-> v]
Nested(items) == [kind |-> "list", items |-> items]

\* Lines 295-312 for one item, once label, value and attr are unpacked; an
\* empty list is stored as a plain value.
RECURSIVE _load_from_list(_, _, _)
load_item(h, c, label, value, attr) ==
  IF value.kind = "list" /\ Len(value.items) > 0
  THEN LET child_store == Len(h.store) + 1
           n == Len(h.node) + 1
           h1 == new_store(h, "TreeStore")
           h2 == new_node(h1, label, attr, StoreV(child_store), c, NoTag)
           h3 == [h2 EXCEPT !.store[child_store].parent = n]
           loaded(r) == IF r.err # "" THEN r ELSE _insert_node(r.h, c, n, NonePos)
       IN loaded(_load_from_list(h3, child_store, value.items))
  ELSE LET n == Len(h.node) + 1
           h1 == new_node(h, label, attr,
                          IF value.kind = "list" THEN [t |-> "list", v |-> 0] ELSE value.v,
                          c, NoTag)
       IN _insert_node(h1, c, n, NonePos)

_load_from_list(h, c, items) ==
  IF Len(items) = 0 THEN Ok(h)
  ELSE LET item == items[1]
       IN IF Len(item) \notin {2, 3} THEN Raise(h, "ValueError", "tuple")
          ELSE LET rest(r) == IF r.err # "" THEN r ELSE _load_from_list(r.h, c, Tail(items))
               IN rest(load_item(h, c, item[1], item[2],
                                 IF Len(item) = 3 THEN item[3] ELSE <<>>))

\* TreeStore(source) for a list source, on an empty heap: the root is store 1.
TreeStore_from_list(items) ==
  _load_from_list([store |-> <<TreeStore_init("TreeStore")>>, node |-> <<>>], Root, items)

(***************************************************************************)
(* Plain structures.  A dict value is Dict(items), anything else is        *)
(* Scalar(v); keys are text.                                               *)
(***************************************************************************)
Dict(items) == [kind |-> "dict", items |-> items]

ValueKey == <<"_", "v", "a", "l", "u", "e">>

\* dict(node.attr), as items of a plain dict
plain_attr(attr) == [i \in 1..Len(attr) |-> <<attr[i][1], Scalar(attr[i][2])>>]

RECURSIVE as_dict_loop(_, _, _, _)
as_dict_loop(h, c, i, result) ==
  IF i > Len(h.store[c].order) THEN result
  ELSE LET n == h.store[c].order[i]
           attr == h.node[n].attr
           entry ==
             IF is_branch(h, n)
             THEN IF Len(attr) > 0
                  THEN Dict(dict_update(plain_attr(attr),
                                        as_dict_loop(h, h.node[n].value.v, 1, <<>>)))
                  ELSE Dict(as_dict_loop(h, h.node[n].value.v, 1, <<>>))
             ELSE IF Len(attr) > 0
                  THEN Dict(dict_update(<< <<ValueKey, Scalar(h.node[n].value)>> >>,
                                        plain_attr(attr)))
                  ELSE Scalar(h.node[n].value)
       IN as_dict_loop(h, c, i + 1, dict_set(result, h.node[n].label, entry))

as_dict(h, c) == as_dict_loop(h, c, 1, <<>>)

\* A plain value kept as a node value or an attribute value; a dict kept so
\* is an opaque value.
plain_value(v) == IF v.kind = "dict" THEN [t |-> "dict", v |-> 0] ELSE v.v

\* The three parts the loader splits a dict value into.
dict_item_attr(items) ==
  LET keep(item) == startswith(item[1], <<"_">>) /\ item[1] # ValueKey
      kept == SelectSeq(items, keep)
  IN [i \in 1..Len(kept) |-> <<Tail(kept[i][1]), plain_value(kept[i][2])>>]

dict_item_children(items) ==
  LET keep(item) == ~startswith(item[1], <<"_">>) IN SelectSeq(items, keep)

dict_item_value(items) ==
  IF dict_has(items, ValueKey) THEN plain_value(dict_get(items, ValueKey)) ELSE None

RECURSIVE _load_from_dict(_, _, _)
load_dict_item(h, c, key, items) ==
  IF Len(dict_item_children(items)) > 0
  THEN LET child_store == Len(h.store) + 1
           n == Len(h.node) + 1
           h1 == new_store(h, "TreeStore")
           h2 == new_node(h1, key, dict_item_attr(items), StoreV(child_store), c, NoTag)
           h3 == [h2 EXCEPT !.store[child_store].parent = n]
       IN _insert_node(_load_from_dict(h3, child_store, dict_item_children(items)),
                       c, n, NonePos).h
  ELSE _insert_node(new_node(h, key, dict_item_attr(items), dict_item_value(items), c, NoTag),
                    c, Len(h.node) + 1, NonePos).h

_load_from_dict(h, c, data) ==
  IF Len(data) = 0 THEN h
  ELSE LET key == data[1][1]
           value == data[1][2]
           rest(h1) == _load_from_dict(h1, c, Tail(data))
       IN IF startswith(key, <<"_">>) THEN rest(h)
          ELSE IF value.kind = "dict" THEN rest(load_dict_item(h, c, key, value.items))
          ELSE rest(_insert_node(new_node(h, key, <<>>, value.v, c, NoTag),
                                 c, Len(h.node) + 1, NonePos).h)

\* TreeStore(data) for a dict: a new store, loaded; ret is the new store.
TreeStore_from_dict(h, data) ==
  Return(_load_from_dict(new_store(h, "TreeStore"), Len(h.store) + 1, data), Len(h.store) + 1)

(***************************************************************************)
(* update: the merge of another store into this one.                       *)
(***************************************************************************)
\* The copy of the nodes of store source from position i on into store c.
RECURSIVE _load_from_treestore(_, _, _, _)
copy_node(h, c, src_node) ==
  IF is_branch(h, src_node)
  THEN LET child_store == Len(h.store) + 1
           n == Len(h.node) + 1
           made(h1) == [h1 EXCEPT !.store[child_store].parent = n]
           loaded(h1) == _insert_node(h1, c, n, NonePos).h
       IN loaded(_load_from_treestore(
                   made(new_node(new_store(h, "TreeStore"), h.node[src_node].label,
                                 h.node[src_node].attr, StoreV(child_store), c, NoTag)),
                   child_store, h.node[src_node].value.v, 1))
  ELSE _insert_node(new_node(h, h.node[src_node].label, h.node[src_node].attr,
                             h.node[src_node].value, c, NoTag),
                    c, Len(h.node) + 1, NonePos).h

_load_from_treestore(h, c, source, i) ==
  IF i > Len(h.store[source].order) THEN h
  ELSE _load_from_treestore(copy_node(h, c, h.store[source].order[i]), c, source, i + 1)

\* One turn of the loop of _update_from_treestore, for the node other_node.
RECURSIVE _update_from_treestore(_, _, _, _, _)
update_existing(h, curr_node, other_node, ignore_none) ==
  LET other_value == h.node[other_node].value
      valued(h1) ==
        IF other_value.t = "store" /\ is_branch(h1, curr_node)
        THEN _update_from_treestore(h1, h1.node[curr_node].value.v, other_value.v, 1,
                                    ignore_none)
        ELSE IF ~ignore_none \/ other_value # None
        THEN set_value(h1, curr_node, other_value)
        ELSE h1
  IN valued([h EXCEPT !.node[curr_node].attr = dict_update(@, h.node[other_node].attr)])

update_node(h, c, other_node, ignore_none) ==
  IF dict_has(h.store[c].nodes, h.node[other_node].label)
  THEN update_existing(h, dict_get(h.store[c].nodes, h.node[other_node].label),
                       other_node, ignore_none)
  ELSE copy_node(h, c, other_node)

_update_from_treestore(h, c, other, i, ignore_none) ==
  IF i > Len(h.store[other].order) THEN h
  ELSE _update_from_treestore(update_node(h, c, h.store[other].order[i], ignore_none),
                              c, other, i + 1, ignore_none)

\* update(other, ignore_none) for a list: other_store = TreeStore(other) is a
\* new store, the next one of the heap; ret is that store.
update(h, c, other, ignore_none) ==
  LET other_store == Len(h.store) + 1
      merged(r) ==
        IF r.err # "" THEN r
        ELSE Return(_update_from_treestore(r.h, c, other_store, 1, ignore_none), other_store)
  IN merged(_load_from_list(new_store(h, "TreeStore"), other_store, other))

(***************************************************************************)
(* TreeStoreBuilder: auto-labelled children, reindex and by_tag.           *)
(***************************************************************************)
\* The label argument of child() when it is None.
NoLabel == <<"<None>">>

\* f"{tag}_{n}"
auto_label(tag, n) == tag \o <<"_">> \o str(n)

\* The counter after _generate_label; the label uses the counter before.
_generate_label(h, c, tag) ==
  [h EXCEPT !.store[c].tag_counters =
              dict_set(@, tag, (IF dict_has(@, tag) THEN dict_get(@, tag) ELSE 0) + 1)]

generated_number(h, c, tag) ==
  IF dict_has(h.store[c].tag_counters, tag) THEN dict_get(h.store[c].tag_counters, tag) ELSE 0

\* re.match("^" + tag + "_\\d+$", label)
_is_auto_label(label, tag) ==
  /\ startswith(label, tag \o <<"_">>)
  /\ isdigit(Tail_n(label, Len(tag) + 1))

\* A variant of child that enforces valid_children on insertion: a tag that
\* the rule of the owning node's tag does not name raises InvalidChildError.
\* C21 tells the two apart.
child_enforcing(h, c, tag, label, value, final_attr, _position) ==
  LET g == h.store[c].grammar
      parent_tag == IF h.store[c].parent = NoRef THEN NoTag ELSE h.node[h.store[c].parent].tag
      h0 == IF label = NoLabel THEN _generate_label(h, c, tag) ELSE h
      lbl == IF label = NoLabel THEN auto_label(tag, generated_number(h, c, tag)) ELSE label
      n == Len(h.node) + 1
      child_builder == Len(h.store) + 1
      h1 == [new_store(h0, h.store[c].cls)
               EXCEPT !.store[child_builder].grammar = h.store[c].grammar]
      h2 == new_node(h1, lbl, final_attr, StoreV(child_builder), c, tag)
      h3 == [h2 EXCEPT !.store[child_builder].parent = n]
      inserted(r, ret) == IF r.err # "" THEN r ELSE Return(r.h, ret)
  IN IF /\ dict_has(g.tag_to_config, parent_tag)
        /\ dict_get(g.tag_to_config, parent_tag).has_children
        /\ ~dict_has(dict_get(g.tag_to_config, parent_tag).valid_children, tag)
     THEN Raise(h, "InvalidChildError", "child")
     ELSE IF value # None
     THEN inserted(_insert_node(new_node(h0, lbl, final_attr, value, c, tag), c, n, _position),
                   n)
     ELSE inserted(_insert_node(h3, c, n, _position), child_builder)

\* child(tag, label, value, attributes, _position): ret is the leaf node, or
\* the child builder of the branch.
child(h, c, tag, label, value, final_attr, _position) ==
  LET h0 == IF label = NoLabel THEN _generate_label(h, c, tag) ELSE h
      lbl == IF label = NoLabel THEN auto_label(tag, generated_number(h, c, tag)) ELSE label
      n == Len(h.node) + 1
      child_builder == Len(h.store) + 1
      h1 == [new_store(h0, h.store[c].cls)
               EXCEPT !.store[child_builder].grammar = h.store[c].grammar]
      h2 == new_node(h1, lbl, final_attr, StoreV(child_builder), c, tag)
      h3 == [h2 EXCEPT !.store[child_builder].parent = n]
      inserted(r, ret) == IF r.err # "" THEN r ELSE Return(r.h, ret)
  IN IF value # None
     THEN inserted(_insert_node(new_node(h0, lbl, final_attr, value, c, tag), c, n, _position),
                   n)
     ELSE inserted(_insert_node(h3, c, n, _position), child_builder)

\* int(label.rsplit('_', 1)[1])
label_number(label) == DigitsVal(rsplit1(label, "_")[2])

\* A faulty variant of the sort, which orders a tag group by decreasing
\* number; C19 tells the two apart.
RECURSIVE sort_insert_descending(_, _, _)
sort_insert_descending(h, sorted, x) ==
  IF Len(sorted) = 0 THEN <<x>>
  ELSE IF label_number(h.node[sorted[Len(sorted)]].label) >= label_number(h.node[x].label)
  THEN Append(sorted, x)
  ELSE Append(sort_insert_descending(h, SubSeq(sorted, 1, Len(sorted) - 1), x),
              sorted[Len(sorted)])

\* list.sort(key=number) is stable: x goes after the items not greater.
RECURSIVE sort_insert(_, _, _)
sort_insert(h, sorted, x) ==
  IF Len(sorted) = 0 THEN <<x>>
  ELSE IF label_number(h.node[sorted[Len(sorted)]].label) <= label_number(h.node[x].label)
  THEN Append(sorted, x)
  ELSE Append(sort_insert(h, SubSeq(sorted, 1, Len(sorted) - 1), x), sorted[Len(sorted)])

RECURSIVE sort_by_number(_, _)
sort_by_number(h, ns) ==
  IF Len(ns) = 0 THEN <<>>
  ELSE sort_insert(h, sort_by_number(h, SubSeq(ns, 1, Len(ns) - 1)), ns[Len(ns)])

\* by_tag of reindex: the (label, node) items with an auto label, per tag.
reindex_eligible(h, c) ==
  LET auto(item) ==
        /\ Len(h.node[item[2]].tag) > 0
        /\ _is_auto_label(item[1], h.node[item[2]].tag)
  IN SelectSeq(h.store[c].nodes, auto)

\* The keys of by_tag, in the order setdefault created them.
RECURSIVE first_tags(_, _, _)
first_tags(h, items, seen) ==
  IF Len(items) = 0 THEN seen
  ELSE first_tags(h, Tail(items),
                  IF list_has(seen, h.node[items[1][2]].tag) THEN seen
                  ELSE Append(seen, h.node[items[1][2]].tag))

RECURSIVE reindex_remove(_, _, _)
reindex_remove(h, c, items) ==
  IF Len(items) = 0 THEN h
  ELSE reindex_remove([h EXCEPT !.store[c].nodes = dict_del(@, items[1][1])], c, Tail(items))

RECURSIVE reindex_add(_, _, _, _, _)
reindex_add(h, c, tag, ns, i) ==
  IF i >= Len(ns) THEN h
  ELSE reindex_add([h EXCEPT !.node[ns[i + 1]].label = auto_label(tag, i),
                             !.store[c].nodes = dict_set(@, auto_label(tag, i), ns[i + 1])],
                   c, tag, ns, i + 1)

\* Lines 241-256 for one tag; items is the eligible list as first collected.
reindex_tag(h, c, tag, items) ==
  LET of_tag(item) == h.node[item[2]].tag = tag
      tag_nodes == SelectSeq(items, of_tag)
      sorted == sort_by_number(h, dict_values(tag_nodes))
      renumbered(h1) ==
        [h1 EXCEPT !.store[c].tag_counters = dict_set(@, tag, Len(tag_nodes))]
  IN renumbered(reindex_add(reindex_remove(h, c, tag_nodes), c, tag, sorted, 0))

RECURSIVE reindex_tags(_, _, _, _)
reindex_tags(h, c, tags, items) ==
  IF Len(tags) = 0 THEN h
  ELSE reindex_tags(reindex_tag(h, c, tags[1], items), c, Tail(tags), items)

RECURSIVE reindex(_, _)
RECURSIVE reindex_children(_, _, _)
reindex_children(h, c, i) ==
  IF i > Len(h.store[c].nodes) THEN h
  ELSE LET n == h.store[c].nodes[i][2]
       IN reindex_children(
            IF is_branch(h, n) /\ h.store[h.node[n].value.v].cls = "TreeStoreBuilder"
            THEN reindex(h, h.node[n].value.v) ELSE h,
            c, i + 1)

reindex(h, c) ==
  reindex_children(
    reindex_tags(h, c, first_tags(h, reindex_eligible(h, c), <<>>), reindex_eligible(h, c)),
    c, 1)

\* [n for n in self._nodes.values() if n.tag == tag]
by_tag(h, c, tag) ==
  LET has_tag(n) == h.node[n].tag = tag IN SelectSeq(dict_values(h.store[c].nodes), has_tag)

(***************************************************************************)
(* Grammar.  A grammar class is the sequence, in the order of dir(), of    *)
(* its definitions: a property returning a dict with 'tag', or a method    *)
(* decorated with @element.  A cardinality is (min, max); max is None when *)
(* bounded is FALSE.                                                       *)
(***************************************************************************)
Card(min, max) == [err |-> "", min |-> min, max |-> max, bounded |-> TRUE]
CardFrom(min) == [err |-> "", min |-> min, max |-> 0, bounded |-> FALSE]
CardError == [err |-> "ValueError", min |-> 0, max |-> 0, bounded |-> FALSE]

\* _parse_cardinality for a str
_parse_cardinality(spec) ==
  IF ~Contains(spec, ":")
  THEN IF int_ok(spec) THEN Card(int(spec), int(spec)) ELSE CardError
  ELSE LET parts == split(spec, ":")
       IN IF Len(parts[1]) > 0 /\ ~int_ok(parts[1]) THEN CardError
          ELSE IF Len(parts[2]) > 0 /\ ~int_ok(parts[2]) THEN CardError
          ELSE IF Len(parts[2]) > 0
          THEN Card(IF Len(parts[1]) > 0 THEN int(parts[1]) ELSE 0, int(parts[2]))
          ELSE CardFrom(IF Len(parts[1]) > 0 THEN int(parts[1]) ELSE 0)

_parse_cardinality_symbol(spec) ==
  IF spec = <<"*">> THEN CardFrom(0)
  ELSE IF spec = <<"+">> THEN CardFrom(1)
  ELSE IF spec = <<"?">> THEN Card(0, 1)
  ELSE IF Contains(spec, "-") /\ ~Contains(spec, ":")
  THEN LET parts == split(spec, "-")
       IN IF int_ok(parts[1]) /\ int_ok(parts[2]) THEN Card(int(parts[1]), int(parts[2]))
          ELSE CardError
  ELSE _parse_cardinality(spec)

\* The arguments of a definition that may be None.
NoText == [kind |-> "none"]
Text(s) == [kind |-> "str", s |-> s]
Cards(d) == [kind |-> "dict", d |-> d]

Property(name, tag, valid_children, valid_parent) ==
  [style |-> "property", name |-> name, tag |-> Text(tag),
   valid_children |-> valid_children, valid_parent |-> valid_parent]

Element(name, tag, valid_children, valid_parent) ==
  [style |-> "element", name |-> name, tag |-> tag,
   valid_children |-> valid_children, valid_parent |-> valid_parent]

\* [t.strip() for t in tags.split(',')]
tag_list(tags) == LET parts == split(tags, ",") IN [i \in 1..Len(parts) |-> strip(parts[i])]

\* if valid_children: / if valid_parent:
truthy(x) ==
  \/ x.kind = "str" /\ Len(x.s) > 0
  \/ x.kind = "dict" /\ Len(x.d) > 0

\* {key: (min, max)}, or the ValueError of the first cardinality that does
\* not parse.
RECURSIVE resolve_children_dict(_, _, _)
resolve_children_dict(d, i, result) ==
  IF i > Len(d) THEN [err |-> "", d |-> result]
  ELSE LET parsed(card) ==
             IF card.err # "" THEN [err |-> card.err, d |-> result]
             ELSE resolve_children_dict(d, i + 1, dict_set(result, d[i][1], card))
       IN parsed(_parse_cardinality_symbol(d[i][2]))

RECURSIVE resolve_children_str(_, _, _)
resolve_children_str(names, i, result) ==
  IF i > Len(names) THEN [err |-> "", d |-> result]
  ELSE resolve_children_str(names, i + 1, dict_set(result, strip(names[i]), CardFrom(0)))

_resolve_children(valid_children) ==
  IF valid_children.kind = "str"
  THEN resolve_children_str(split(valid_children.s, ","), 1, <<>>)
  ELSE resolve_children_dict(valid_children.d, 1, <<>>)

\* set(t.strip() for t in valid_parent.split(','))
_resolve_parent(valid_parent) == Range_of(tag_list(valid_parent.s))

\* The config _store_config keeps for each tag; valid_children and
\* valid_parent are None when has_children and has_parent are FALSE.
Config(has_children, children, has_parent, parents) ==
  [has_children |-> has_children, valid_children |-> children,
   has_parent |-> has_parent, valid_parent |-> parents]

RECURSIVE store_tags(_, _, _, _)
store_tags(g, tags, i, config) ==
  IF i > Len(tags) THEN g
  ELSE store_tags([g EXCEPT !.tag_to_config = dict_set(@, tags[i], config)],
                  tags, i + 1, config)

\* err is the ValueError of a cardinality; nothing is stored then.
_store_config(g, tags, def) ==
  LET stored(children) ==
        IF children.err # "" THEN [err |-> children.err, g |-> g]
        ELSE [err |-> "",
              g |-> store_tags(g, tag_list(tags), 1,
                               Config(def.valid_children.kind # "none", children.d,
                                      def.valid_parent.kind # "none",
                                      IF truthy(def.valid_parent)
                                      THEN _resolve_parent(def.valid_parent) ELSE {}))]
  IN stored(IF truthy(def.valid_children) THEN _resolve_children(def.valid_children)
            ELSE [err |-> "", d |-> <<>>])

\* One turn of the loop of _resolve_all.  A property is evaluated inside
\* try/except Exception: pass, after its group has been recorded; of a
\* group only its 'tag' text is read later.
resolve_definition(g, def) ==
  IF startswith(def.name, <<"_">>) THEN [err |-> "", g |-> g]
  ELSE IF def.style = "element"
  THEN _store_config(g, IF truthy(def.tag) THEN def.tag.s ELSE def.name, def)
  ELSE LET grouped == [g EXCEPT !.groups = dict_set(@, def.name, def.tag.s)]
           tried(r) == IF r.err # "" THEN [err |-> "", g |-> grouped] ELSE r
       IN tried(_store_config(grouped, def.tag.s, def))

RECURSIVE _resolve_all(_, _, _)
_resolve_all(g, defs, i) ==
  IF i > Len(defs) THEN [err |-> "", g |-> g]
  ELSE LET resolved(r) == IF r.err # "" THEN r ELSE _resolve_all(r.g, defs, i + 1)
       IN resolved(resolve_definition(g, defs[i]))

\* Grammar(): the instance, or the exception of __init__
Grammar_init(defs) ==
  _resolve_all([none |-> FALSE, tag_to_config |-> <<>>, groups |-> <<>>], defs, 1)

\* get_config(tag) is not None
has_config(g, tag) == dict_has(g.tag_to_config, tag)

get_config(g, tag) == dict_get(g.tag_to_config, tag)

\* A variant of expand_part that knows no groups and takes every name for a
\* tag; C23 tells the two apart.
expand_part_literal(g, part) == <<part>>

expand_part(g, part) ==
  IF dict_has(g.tag_to_config, part) THEN <<part>>
  ELSE IF dict_has(g.groups, part) THEN tag_list(dict_get(g.groups, part))
  ELSE <<part>>

RECURSIVE expand_parts(_, _, _)
expand_parts(g, parts, i) ==
  IF i > Len(parts) THEN <<>>
  ELSE expand_part(g, strip(parts[i])) \o expand_parts(g, parts, i + 1)

expand_name(g, name) == expand_parts(g, split(name, ","), 1)

(***************************************************************************)
(* TreeStoreBuilder with a grammar: construction, dynamic tag methods and  *)
(* validate.                                                               *)
(***************************************************************************)
\* TreeStoreBuilder(grammar=cls) on an empty heap: the grammar class is
\* instantiated in __init__, whose exception leaves no builder.
TreeStoreBuilder_init(defs) ==
  LET built(r) ==
        IF r.err # "" THEN Raise([store |-> <<>>, node |-> <<>>], r.err, "grammar")
        ELSE Return([store |-> <<[TreeStore_init("TreeStoreBuilder") EXCEPT !.grammar = r.g]>>,
                     node |-> <<>>], Root)
  IN built(Grammar_init(defs))

\* builder.<name>(value, _position): __getattr__ gives the tag method when
\* the grammar has a config for the name.
tag_method(h, c, name, value, _position) ==
  IF ~h.store[c].grammar.none /\ has_config(h.store[c].grammar, name)
  THEN child(h, c, name, NoLabel, value, <<>>, _position)
  ELSE Raise(h, "AttributeError", "attribute")

\* The outcome of a validation: err is "" or the class of the exception,
\* raised for the child tag under parent.
Valid == [err |-> "", tag |-> NoTag, parent |-> NoTag]
Invalid(err, tag, parent) == [err |-> err, tag |-> tag, parent |-> parent]

\* valid_children_expanded; has is FALSE when it is None.
RECURSIVE expand_tags(_, _, _, _)
expand_tags(tags, i, cardinality, expanded) ==
  IF i > Len(tags) THEN expanded
  ELSE expand_tags(tags, i + 1, cardinality, dict_set(expanded, tags[i], cardinality))

RECURSIVE expand_children(_, _, _, _)
expand_children(g, raw, i, expanded) ==
  IF i > Len(raw) THEN expanded
  ELSE expand_children(g, raw, i + 1,
                       expand_tags(expand_name(g, raw[i][1]), 1, raw[i][2], expanded))

valid_children_expanded(g, parent_tag) ==
  IF parent_tag # NoTag /\ ~g.none /\ has_config(g, parent_tag)
       /\ get_config(g, parent_tag).has_children
  THEN [has |-> TRUE,
        d |-> expand_children(g, get_config(g, parent_tag).valid_children, 1, <<>>)]
  ELSE [has |-> FALSE, d |-> <<>>]

\* A variant of the cardinality checks that compares, for the tags that came
\* with the same (min, max), their total with it; C28 tells the two apart.
RECURSIVE total_count(_, _, _, _)
total_count(expanded, child_counts, cardinality, j) ==
  IF j > Len(expanded) THEN 0
  ELSE (IF expanded[j][2] = cardinality /\ dict_has(child_counts, expanded[j][1])
        THEN dict_get(child_counts, expanded[j][1]) ELSE 0)
       + total_count(expanded, child_counts, cardinality, j + 1)

RECURSIVE check_cardinality_total(_, _, _, _)
check_cardinality_total(expanded, child_counts, i, parent_tag) ==
  IF i > Len(expanded) THEN Valid
  ELSE LET tag == expanded[i][1]
           count == total_count(expanded, child_counts, expanded[i][2], 1)
       IN IF count < expanded[i][2].min
          THEN Invalid("MissingChildError", tag, parent_tag)
          ELSE IF expanded[i][2].bounded /\ count > expanded[i][2].max
          THEN Invalid("TooManyChildrenError", tag, parent_tag)
          ELSE check_cardinality_total(expanded, child_counts, i + 1, parent_tag)

\* The cardinality checks after the loop, from item i of the expanded table.
RECURSIVE check_cardinality(_, _, _, _)
check_cardinality(expanded, child_counts, i, parent_tag) ==
  IF i > Len(expanded) THEN Valid
  ELSE LET tag == expanded[i][1]
           count == IF dict_has(child_counts, tag) THEN dict_get(child_counts, tag) ELSE 0
       IN IF count < expanded[i][2].min
          THEN Invalid("MissingChildError", tag, parent_tag)
          ELSE IF expanded[i][2].bounded /\ count > expanded[i][2].max
          THEN Invalid("TooManyChildrenError", tag, parent_tag)
          ELSE check_cardinality(expanded, child_counts, i + 1, parent_tag)

\* The checks of one tagged node before it is counted.
check_node(g, tag, parent_tag, expanded) ==
  IF /\ ~g.none /\ has_config(g, tag) /\ get_config(g, tag).has_parent
     /\ parent_tag # NoTag /\ parent_tag \notin get_config(g, tag).valid_parent
  THEN Invalid("InvalidParentError", tag, parent_tag)
  ELSE IF expanded.has /\ ~dict_has(expanded.d, tag)
  THEN Invalid("InvalidChildError", tag, parent_tag)
  ELSE Valid

\* A variant of the loop that does not skip the nodes without a tag: it
\* checks them, counts them and visits what they hold; C30 tells the two apart.
RECURSIVE validate_loop_all(_, _, _, _, _, _, _)
validate_loop_all(h, g, store_, parent_tag, expanded, i, child_counts) ==
  IF i > Len(h.store[store_].order)
  THEN IF expanded.has THEN check_cardinality(expanded.d, child_counts, 1, parent_tag)
       ELSE Valid
  ELSE LET n == h.store[store_].order[i]
           tag == h.node[n].tag
           counted == dict_set(child_counts, tag,
                               (IF dict_has(child_counts, tag) THEN dict_get(child_counts, tag)
                                ELSE 0) + 1)
           below(r) ==
             IF r.err # "" THEN r
             ELSE validate_loop_all(h, g, store_, parent_tag, expanded, i + 1, counted)
           checked(r) ==
             IF r.err # "" THEN r
             ELSE IF is_branch(h, n)
             THEN below(validate_loop_all(h, g, h.node[n].value.v, tag,
                                          valid_children_expanded(g, tag), 1, <<>>))
             ELSE validate_loop_all(h, g, store_, parent_tag, expanded, i + 1, counted)
       IN checked(check_node(g, tag, parent_tag, expanded))

RECURSIVE validate_loop(_, _, _, _, _, _, _)
validate_loop(h, g, store_, parent_tag, expanded, i, child_counts) ==
  IF i > Len(h.store[store_].order)
  THEN IF expanded.has THEN check_cardinality(expanded.d, child_counts, 1, parent_tag)
       ELSE Valid
  ELSE LET n == h.store[store_].order[i]
           tag == h.node[n].tag
           counted == dict_set(child_counts, tag,
                               (IF dict_has(child_counts, tag) THEN dict_get(child_counts, tag)
                                ELSE 0) + 1)
           below(r) ==
             IF r.err # "" THEN r
             ELSE validate_loop(h, g, store_, parent_tag, expanded, i + 1, counted)
           checked(r) ==
             IF r.err # "" THEN r
             ELSE IF is_branch(h, n)
             THEN below(validate_loop(h, g, h.node[n].value.v, tag,
                                      valid_children_expanded(g, tag), 1, <<>>))
             ELSE validate_loop(h, g, store_, parent_tag, expanded, i + 1, counted)
       IN IF tag = NoTag
          THEN validate_loop(h, g, store_, parent_tag, expanded, i + 1, child_counts)
          ELSE checked(check_node(g, tag, parent_tag, expanded))

_validate_node(h, g, store_, parent_tag) ==
  validate_loop(h, g, store_, parent_tag, valid_children_expanded(g, parent_tag), 1, <<>>)

\* A variant of validate that answers what the earlier validation answered
\* and walks the tree only the first time; C27 tells the two apart.
validate_cached(h, c) ==
  IF last.verdict # "none" THEN Invalid(last.verdict, NoTag, NoTag)
  ELSE IF h.store[c].grammar.none THEN Invalid("ValueError", NoTag, NoTag)
  ELSE _validate_node(h, h.store[c].grammar, c, NoTag)

validate(h, c) ==
  IF h.store[c].grammar.none THEN Invalid("ValueError", NoTag, NoTag)
  ELSE _validate_node(h, h.store[c].grammar, c, NoTag)

(***************************************************************************)
(* BuilderBase: the rules of the @element methods, child and check.        *)
(***************************************************************************)
\* [a-zA-Z_] and [a-zA-Z0-9_]
NameStart ==
  {"a", "b", "c", "d", "e", "f", "g", "h", "i", "j", "k", "l", "m", "n", "o", "p", "q", "r", "s", "t", "u", "v", "w", "x", "y", "z"}
  \cup {"A", "B", "C", "D", "E", "F", "G", "H", "I", "J", "K", "L", "M", "N", "O", "P", "Q", "R", "S", "T", "U", "V", "W", "X", "Y", "Z"}
  \cup {"_"}

NameChars == NameStart \cup Digits

\* The number of characters of s from position i on that are in S.
RECURSIVE span(_, _, _)
span(s, i, S) == IF i <= Len(s) /\ s[i] \in S THEN 1 + span(s, i + 1, S) ELSE 0

TagSpec(tag, cardinality) ==
  [err |-> "", tag |-> tag, min |-> cardinality.min, max |-> cardinality.max,
   bounded |-> cardinality.bounded]

TagSpecError == [err |-> "ValueError", tag |-> <<>>, min |-> 0, max |-> 0, bounded |-> FALSE]

\* _TAG_PATTERN.match(spec.strip()): the name, blanks, and an optional
\* '[' digits ':'? digits ']' up to the end; then the three cases of the
\* groups.  has_colon looks at the whole spec.
_parse_tag_spec(spec) ==
  LET s == strip(spec)
      name_len == IF Len(s) > 0 /\ s[1] \in NameStart THEN 1 + span(s, 2, NameChars) ELSE 0
      blanks == span(s, name_len + 1, {" "})
      rest == SubSeq(s, name_len + blanks + 1, Len(s))
      d1 == span(rest, 2, Digits)
      colon == IF 2 + d1 <= Len(rest) /\ rest[2 + d1] = ":" THEN 1 ELSE 0
      d2 == span(rest, 2 + d1 + colon, Digits)
      brackets == /\ Len(rest) >= 2
                  /\ rest[1] = "["
                  /\ 2 + d1 + colon + d2 = Len(rest)
                  /\ rest[Len(rest)] = "]"
      tag == SubSeq(s, 1, name_len)
      min_str == SubSeq(rest, 2, 1 + d1)
      max_str == SubSeq(rest, 2 + d1 + colon, 1 + d1 + colon + d2)
      has_colon == Contains(spec, ":")
      n == IF Len(min_str) > 0 THEN int(min_str) ELSE 0
  IN IF name_len = 0 \/ (Len(rest) > 0 /\ ~brackets) THEN TagSpecError
     ELSE IF Len(rest) = 0 THEN TagSpec(tag, CardFrom(0))
     ELSE IF ~has_colon THEN TagSpec(tag, Card(n, n))
     ELSE IF Len(max_str) > 0 THEN TagSpec(tag, Card(n, int(max_str)))
     ELSE TagSpec(tag, CardFrom(n))

\* ','.join(children) for a tuple of specs
RECURSIVE join_specs(_, _)
join_specs(children, i) ==
  IF i > Len(children) THEN <<>>
  ELSE children[i] \o (IF i < Len(children) THEN <<",">> ELSE <<>>)
       \o join_specs(children, i + 1)

\* The rules a method carries: has_valid is FALSE when _valid_children is
\* None, child_cardinality is the dict tag -> (min, max).
Rules(valid_children, child_cardinality) ==
  [err |-> "", has_valid |-> TRUE, valid_children |-> valid_children,
   child_cardinality |-> child_cardinality]

NoRules == [err |-> "", has_valid |-> FALSE, valid_children |-> {}, child_cardinality |-> <<>>]

RECURSIVE parse_children(_, _, _)
parse_children(specs, i, parsed_children) ==
  IF i > Len(specs) THEN Rules(Range_of(dict_keys(parsed_children)), parsed_children)
  ELSE LET parsed(t) ==
             IF t.err # "" THEN [NoRules EXCEPT !.err = t.err]
             ELSE parse_children(specs, i + 1,
                                 dict_set(parsed_children, t.tag,
                                          [err |-> "", min |-> t.min, max |-> t.max,
                                           bounded |-> t.bounded]))
       IN parsed(_parse_tag_spec(specs[i]))

\* @element(children=children) for a tuple of specs: a spec with '=' is a
\* reference and leaves the rules empty.
element(children) ==
  IF Contains(join_specs(children, 1), "=") THEN Rules({}, <<>>)
  ELSE parse_children(children, 1, <<>>)

\* class BuildingBuilder: each @element method with its children.
BuildingBuilder ==
  <<
     <<<<"b", "u", "i", "l", "d", "i", "n", "g">>,
       << <<"f", "l", "o", "o", "r">> >> >>,
     <<<<"f", "l", "o", "o", "r">>,
       << <<"a", "p", "a", "r", "t", "m", "e", "n", "t">>,
          <<"c", "o", "r", "r", "i", "d", "o", "r">>,
          <<"s", "t", "a", "i", "r", "s">> >> >>,
     <<<<"a", "p", "a", "r", "t", "m", "e", "n", "t">>,
       << <<"k", "i", "t", "c", "h", "e", "n", "[", ":", "1", "]">>,
          <<"b", "a", "t", "h", "r", "o", "o", "m", "[", "1", ":", "]">>,
          <<"b", "e", "d", "r", "o", "o", "m">>,
          <<"l", "i", "v", "i", "n", "g", "_", "r", "o", "o", "m", "[", ":", "1", "]">>,
          <<"d", "i", "n", "i", "n", "g", "_", "r", "o", "o", "m", "[", ":", "1", "]">> >> >>,
     <<<<"c", "o", "r", "r", "i", "d", "o", "r">>, <<>> >>,
     <<<<"s", "t", "a", "i", "r", "s">>, <<>> >>,
     <<<<"k", "i", "t", "c", "h", "e", "n">>,
       << <<"f", "r", "i", "d", "g", "e", "[", ":", "1", "]">>,
          <<"o", "v", "e", "n", "[", ":", "2", "]">>,
          <<"s", "i", "n", "k", "[", ":", "1", "]">>,
          <<"t", "a", "b", "l", "e">>,
          <<"c", "h", "a", "i", "r">> >> >>,
     <<<<"b", "a", "t", "h", "r", "o", "o", "m">>,
       << <<"t", "o", "i", "l", "e", "t", "[", ":", "1", "]">>,
          <<"s", "h", "o", "w", "e", "r", "[", ":", "1", "]">>,
          <<"s", "i", "n", "k", "[", ":", "1", "]">> >> >>,
     <<<<"b", "e", "d", "r", "o", "o", "m">>,
       << <<"b", "e", "d">>,
          <<"w", "a", "r", "d", "r", "o", "b", "e">>,
          <<"d", "e", "s", "k">>,
          <<"c", "h", "a", "i", "r">> >> >>,
     <<<<"l", "i", "v", "i", "n", "g", "_", "r", "o", "o", "m">>,
       << <<"s", "o", "f", "a">>,
          <<"t", "v">>,
          <<"t", "a", "b", "l", "e">>,
          <<"c", "h", "a", "i", "r">> >> >>,
     <<<<"d", "i", "n", "i", "n", "g", "_", "r", "o", "o", "m">>,
       << <<"t", "a", "b", "l", "e">>,
          <<"c", "h", "a", "i", "r">> >> >>,
     <<<<"f", "r", "i", "d", "g", "e">>, <<>> >>,
     <<<<"o", "v", "e", "n">>, <<>> >>,
     <<<<"s", "i", "n", "k">>, <<>> >>,
     <<<<"t", "o", "i", "l", "e", "t">>, <<>> >>,
     <<<<"s", "h", "o", "w", "e", "r">>, <<>> >>,
     <<<<"b", "e", "d">>, <<>> >>,
     <<<<"w", "a", "r", "d", "r", "o", "b", "e">>, <<>> >>,
     <<<<"d", "e", "s", "k">>, <<>> >>,
     <<<<"t", "a", "b", "l", "e">>, <<>> >>,
     <<<<"c", "h", "a", "i", "r">>, <<>> >>,
     <<<<"s", "o", "f", "a">>, <<>> >>,
     <<<<"t", "v">>, <<>> >>
  >>

\* __init_subclass__: the dict tag -> rules of the method of that name.  An
\* @element whose spec does not parse raises while the class is defined.
RECURSIVE element_tags(_, _, _)
element_tags(methods, i, tags) ==
  IF i > Len(methods) THEN [err |-> "", tags |-> tags]
  ELSE LET decorated(r) ==
             IF r.err # "" THEN [err |-> r.err, tags |-> <<>>]
             ELSE element_tags(methods, i + 1, dict_set(tags, methods[i][1], r))
       IN decorated(element(methods[i][2]))

\* _get_validation_rules(tag) of a builder with the tags b and no _schema
_get_validation_rules(b, tag) ==
  IF tag = NoTag THEN NoRules
  ELSE IF dict_has(b, tag) THEN dict_get(b, tag)
  ELSE NoRules

\* The smallest n for which f"{tag}_{n}" is not a label of target.
RECURSIVE probe_label(_, _, _, _)
probe_label(h, target, tag, n) ==
  IF dict_has(h.store[target].nodes, auto_label(tag, n))
  THEN probe_label(h, target, tag, n + 1)
  ELSE auto_label(tag, n)

\* builder.child(target, tag, label, value, _position); the store of target
\* has no builder, so the child store has none either.
BuilderBase_child(h, target, tag, label, value, _position) ==
  LET label_ == IF label = NoLabel THEN probe_label(h, target, tag, 0) ELSE label
      n == Len(h.node) + 1
      child_store == Len(h.store) + 1
      leaf(r) == IF r.err # "" THEN r ELSE Return(r.h, n)
      branch(r) == IF r.err # "" THEN r ELSE Return(r.h, child_store)
      h1 == new_store(h, "TreeStore")
      h2 == new_node(h1, label_, <<>>, StoreV(child_store), target, tag)
  IN IF value # None
     THEN leaf(_insert_node(new_node(h, label_, <<>>, value, target, tag), target, n,
                            _position))
     ELSE branch(_insert_node([h2 EXCEPT !.store[child_store].parent = n], target, n,
                              _position))

\* The messages of check(): what is wrong, for which tag, under which parent
\* tag, with the bound and the count the message quotes.
Message(kind, tag, parent, bound, actual) ==
  [kind |-> kind, tag |-> tag, parent |-> parent, bound |-> bound, actual |-> actual]

\* node.tag or node.label
child_tag_of(h, n) == IF Len(h.node[n].tag) > 0 THEN h.node[n].tag ELSE h.node[n].label

\* child_counts after the first loop, from node i of the store
RECURSIVE count_children(_, _, _, _)
count_children(h, store_, i, child_counts) ==
  IF i > Len(h.store[store_].order) THEN child_counts
  ELSE LET child_tag == child_tag_of(h, h.store[store_].order[i])
       IN count_children(h, store_, i + 1,
                         dict_set(child_counts, child_tag,
                                  (IF dict_has(child_counts, child_tag)
                                   THEN dict_get(child_counts, child_tag) ELSE 0) + 1))

\* The messages of the cardinality loop, from item i of the dict.
RECURSIVE check_counts(_, _, _, _)
check_counts(cardinality, child_counts, i, parent_tag) ==
  IF i > Len(cardinality) THEN <<>>
  ELSE LET tag == cardinality[i][1]
           min_count == cardinality[i][2].min
           max_count == cardinality[i][2].max
           actual == IF dict_has(child_counts, tag) THEN dict_get(child_counts, tag) ELSE 0
       IN (IF min_count > 0 /\ actual < min_count
           THEN <<Message("min", tag, parent_tag, min_count, actual)>> ELSE <<>>)
          \o (IF cardinality[i][2].bounded /\ actual > max_count
              THEN <<Message("max", tag, parent_tag, max_count, actual)>> ELSE <<>>)
          \o check_counts(cardinality, child_counts, i + 1, parent_tag)

\* builder.check(store, parent_tag); the path argument only travels down the
\* recursion and is in no message.  check_nodes is the second loop from
\* node i on.
RECURSIVE check(_, _, _, _)
RECURSIVE check_nodes(_, _, _, _, _, _)
check_nodes(h, b, store_, parent_tag, rules, i) ==
  IF i > Len(h.store[store_].order) THEN <<>>
  ELSE LET n == h.store[store_].order[i]
           child_tag == child_tag_of(h, n)
       IN (IF rules.has_valid /\ child_tag \notin rules.valid_children
           THEN IF rules.valid_children # {}
                THEN <<Message("invalid_child", child_tag, parent_tag, 0, 0)>>
                ELSE <<Message("no_children", child_tag, parent_tag, 0, 0)>>
           ELSE <<>>)
          \o (IF is_branch(h, n) THEN check(h, b, h.node[n].value.v, child_tag) ELSE <<>>)
          \o check_nodes(h, b, store_, parent_tag, rules, i + 1)

check(h, b, store_, parent_tag) ==
  check_nodes(h, b, store_, parent_tag, _get_validation_rules(b, parent_tag), 1)
  \o check_counts(_get_validation_rules(b, parent_tag).child_cardinality,
                  count_children(h, store_, 1, <<>>), 1, parent_tag)

(***************************************************************************)
(* The calls the program makes on the root store.                          *)
(***************************************************************************)
La == <<"a">>
Lb == <<"b">>
Lc == <<"c">>
Ak == <<"k">>
Aj == <<"j">>

\* The lists the root store is constructed from.
Sources ==
  { <<>>,
    << <<La, Scalar(IntV(1))>> >>,
    << <<La, Scalar(IntV(1)), << <<Ak, IntV(1)>> >> >>, <<Lb, Scalar(IntV(2))>> >>,
    << <<La, Nested(<< <<Lb, Scalar(IntV(1))>> >>), << <<Aj, IntV(2)>> >> >> >>,
    << <<Lb, Nested(<< <<La, Scalar(IntV(1))>>, <<Lb, Scalar(IntV(2))>> >>)>>,
       <<La, Scalar(None)>> >> }

SetPaths ==
  { La, Lc, <<"a", ".", "b">>, <<"c", ".", "a", ".", "b">>,
    <<"#", "0">>, <<"#", "0", ".", "b">>, <<"#", "1", ".", "a">>, <<".", "a">> }

GetPaths ==
  { La, <<"a", ".", "b">>, <<"#", "0">>, <<"#", "-", "1">>, <<"b", ".", "#", "0">>,
    <<"a", "?", "k">>, <<"a", ".", "b", "?", "k">> }

DelPaths == { La, Lc, <<"a", ".", "b">>, <<"b", ".", "a">>, <<"#", "0">> }

AttrPaths == { <<"a", "?", "k">>, <<"a", ".", "b", "?", "k">>, <<"#", "0", "?", "j">> }

AttrDicts == { <<>>, << <<Ak, IntV(2)>> >> }

Positions ==
  { <<">">>, <<"<">>, <<"<", "a">>, <<">", "a">>,
    <<"<", "#", "0">>, <<">", "#", "0">>, <<"<", "#", "-", "1">>, <<">", "#", "-", "1">>,
    <<"<", "#", "-", "2">>, <<">", "#", "-", "2">>,
    <<"#", "1">>, <<"#", "-", "1">>, <<"<", "z">>, <<"<", "#", "x">>, <<"z">>,
    <<"#", "x">>, <<>> }

\* The lists given to update.
Others ==
  { << <<La, Scalar(IntV(5)), << <<Ak, IntV(2)>> >> >> >>,
    << <<La, Scalar(None)>> >>,
    << <<La, Nested(<< <<Lb, Scalar(IntV(3))>>, <<Lc, Scalar(IntV(4))>> >>),
         << <<Ak, IntV(2)>> >> >> >>,
    << <<Lc, Nested(<< <<La, Scalar(IntV(1))>> >>)>>,
       <<Lb, Scalar(None), << <<Ak, IntV(1)>> >> >> >> }

NoCall ==
  [op |-> "init", path |-> <<>>, value |-> None, attr |-> <<>>, pos |-> NonePos,
   err |-> "", why |-> "", ret |-> NoRef, val |-> None, out |-> <<>>, calls |-> <<>>,
   plain |-> <<>>, target |-> Root, tag |-> <<>>, label |-> <<>>, found |-> <<>>, prev |-> "",
   other |-> <<>>, ignore_none |-> FALSE, verdict |-> "none", defs |-> <<>>,
   earlier |-> "none", errors |-> <<>>]

\* issued is the history of _generate_label: the <<container, tag, n, node>> for
\* which the label tag_n was generated, and the node that was given it.
Commit(h) == store' = h.store /\ node' = h.node /\ nops' = nops + 1 /\ issued' = issued

Init ==
  /\ LET built(r) == store = r.h.store /\ node = r.h.node
     IN \E src \in Sources : built(TreeStore_from_list(src))
  /\ last = NoCall
  /\ nops = 0
  /\ issued = {}

\* store.set_item(path, value, _attributes, _position) with La scalar or None
SetItem(path, value, attr, pos) ==
  LET done(r) ==
        /\ Commit(r.h)
        /\ last' = [NoCall EXCEPT !.op = "set_item", !.path = path, !.value = value,
                                   !.attr = attr, !.pos = pos,
                                   !.err = r.err, !.why = r.why, !.ret = r.ret]
  IN nops < MaxOps /\ done(set_item(Heap, Root, path, value, attr, pos))

\* store.set_item(path, TreeStore(), _position=pos)
SetItemStore(path, pos) ==
  LET h1 == new_store(Heap, "TreeStore")
      value == StoreV(Len(h1.store))
      done(r) ==
        /\ Commit(r.h)
        /\ last' = [NoCall EXCEPT !.op = "set_item", !.path = path, !.value = value,
                                   !.pos = pos,
                                   !.err = r.err, !.why = r.why, !.ret = r.ret]
  IN nops < MaxOps /\ done(set_item(h1, Root, path, value, <<>>, pos))

\* store[path]
GetItemBracket(path) ==
  LET done(r) ==
        /\ Commit(r.h)
        /\ last' = [NoCall EXCEPT !.op = "getitem", !.path = path,
                                   !.err = r.err, !.why = r.why, !.val = r.ret]
  IN nops < MaxOps /\ done(getitem(Heap, Root, path))

\* store.get_item(path, default)
GetItem(path, default) ==
  LET done(r) ==
        /\ Commit(r.h)
        /\ last' = [NoCall EXCEPT !.op = "get_item", !.path = path, !.value = default,
                                   !.err = r.err, !.why = r.why, !.val = r.ret]
  IN nops < MaxOps /\ done(get_item(Heap, Root, path, default))

\* store[path?attr] = value
SetAttrItem(path, value) ==
  LET done(r) ==
        /\ Commit(r.h)
        /\ last' = [NoCall EXCEPT !.op = "setitem", !.path = path, !.value = value,
                                   !.err = r.err, !.why = r.why]
  IN nops < MaxOps /\ done(setitem(Heap, Root, path, value))

\* store.del_item(path)
DelItem(path) ==
  LET done(r) ==
        /\ Commit(r.h)
        /\ last' = [NoCall EXCEPT !.op = "del_item", !.path = path,
                                   !.err = r.err, !.why = r.why, !.ret = r.ret]
  IN nops < MaxOps /\ done(del_item(Heap, Root, path))

\* store.pop(path, default)
Pop(path, default) ==
  LET done(r) ==
        /\ Commit(r.h)
        /\ last' = [NoCall EXCEPT !.op = "pop", !.path = path, !.value = default,
                                   !.err = r.err, !.why = r.why, !.val = r.ret]
  IN nops < MaxOps /\ done(pop(Heap, Root, path, default))

\* store.clear()
Clear ==
  /\ nops < MaxOps
  /\ Commit(clear(Heap, Root).h)
  /\ last' = [NoCall EXCEPT !.op = "clear"]

\* store.walk() when callback is FALSE, store.walk(callback) when TRUE
Walk(callback) ==
  /\ nops < MaxOps
  /\ Commit(Heap)
  /\ last' = IF callback
             THEN [NoCall EXCEPT !.op = "walk_callback", !.calls = walk_callback(Heap, Root, 1)]
             ELSE [NoCall EXCEPT !.op = "walk", !.out = _walk_gen(Heap, Root, <<>>, 1)]

\* store.as_dict()
AsDict ==
  /\ nops < MaxOps
  /\ Commit(Heap)
  /\ last' = [NoCall EXCEPT !.op = "as_dict", !.plain = as_dict(Heap, Root)]

\* TreeStore(d) for the dict d that as_dict has just returned
FromDict ==
  LET done(r) ==
        /\ Commit(r.h)
        /\ last' = [NoCall EXCEPT !.op = "from_dict", !.plain = last.plain, !.ret = r.ret]
  IN nops < MaxOps /\ last.op = "as_dict" /\ done(TreeStore_from_dict(Heap, last.plain))

\* store.update(other, ignore_none) with other a list of tuples
Update(other, ignore_none) ==
  LET done(r) ==
        /\ Commit(r.h)
        /\ last' = [NoCall EXCEPT !.op = "update", !.other = other,
                                  !.ignore_none = ignore_none,
                                  !.err = r.err, !.why = r.why, !.ret = r.ret]
  IN nops < MaxOps /\ done(update(Heap, Root, other, ignore_none))

Next ==
  \/ \E path \in SetPaths, value \in {IntV(1), None}, attr \in AttrDicts :
       SetItem(path, value, attr, NonePos)
  \/ \E path \in {La, Lc}, pos \in Positions : SetItem(path, IntV(2), <<>>, pos)
  \/ \E path \in {La, <<"c", ".", "b">>} : SetItemStore(path, NonePos)
  \/ \E path \in GetPaths : GetItemBracket(path)
  \/ \E path \in GetPaths : GetItem(path, IntV(2))
  \/ \E path \in AttrPaths : SetAttrItem(path, IntV(2))
  \/ \E path \in DelPaths : DelItem(path)
  \/ \E path \in DelPaths : Pop(path, IntV(2))
  \/ Clear
  \/ \E callback \in BOOLEAN : Walk(callback)
  \/ AsDict
  \/ FromDict
  \/ \E other \in Others : \E ignore_none \in BOOLEAN : Update(other, ignore_none)

Spec == Init /\ [][Next]_vars

(***************************************************************************)
(* Reading the heap                                                        *)
(***************************************************************************)
Stores == 1..Len(store)
Nodes == 1..Len(node)

Range(s) == {s[i] : i \in 1..Len(s)}

\* The nodes a store holds, through its label map or its order sequence.
Held(h, c) == Range(dict_values(h.store[c].nodes)) \cup Range(h.store[c].order)

HeldSomewhere(h) == UNION {Held(h, c) : c \in 1..Len(h.store)}

ChildStores(h, c) == {h.node[n].value.v : n \in {m \in Held(h, c) : is_branch(h, m)}}

RECURSIVE Below(_, _, _)
Below(h, S, depth) ==
  IF depth = 0 THEN S
  ELSE Below(h, S \cup UNION {ChildStores(h, c) : c \in S}, depth - 1)

\* The stores strictly below c.
Descendants(h, c) == Below(h, ChildStores(h, c), Len(h.store))

(***************************************************************************)
(* The calls the program makes on a builder and on its child builders.     *)
(***************************************************************************)
Td == <<"d">>
Te == <<"e">>

BuilderLabels == { <<"d", "_", "0">>, <<"d", "_", "7">>, <<"m">> }

BuilderDelPaths ==
  { <<"d", "_", "0">>, <<"d", "_", "1">>, <<"m">>, <<"d", "_", "0", ".", "d", "_", "0">> }

\* The child builders directly under the root builder.
ChildBuilders ==
  { node[n].value.v : n \in { m \in Range(store[Root].order) : is_branch(Heap, m) } }

\* TreeStoreBuilder()
BuilderInit ==
  /\ store = <<TreeStore_init("TreeStoreBuilder")>>
  /\ node = <<>>
  /\ last = NoCall
  /\ nops = 0
  /\ issued = {}

\* target.child(tag, label, value, _position=pos)
Child(target, tag, label, value, pos) ==
  LET done(r) ==
        /\ store' = r.h.store
        /\ node' = r.h.node
        /\ last' = [NoCall EXCEPT !.op = "child", !.target = target, !.tag = tag,
                                   !.label = label, !.value = value, !.pos = pos,
                                   !.err = r.err, !.why = r.why, !.ret = r.ret]
  IN /\ nops < MaxBuilderOps
     /\ nops' = nops + 1
     /\ issued' = IF label = NoLabel
                  THEN issued \cup {<<target, tag, generated_number(Heap, target, tag),
                                    Len(node) + 1>>}
                  ELSE issued
     /\ done(child(Heap, target, tag, label, value, <<>>, pos))

\* builder.del_item(path)
BuilderDelItem(path) ==
  LET done(r) ==
        /\ Commit(r.h)
        /\ last' = [NoCall EXCEPT !.op = "del_item", !.path = path,
                                   !.err = r.err, !.why = r.why, !.ret = r.ret]
  IN nops < MaxBuilderOps /\ done(del_item(Heap, Root, path))

\* builder.clear()
BuilderClear ==
  /\ nops < MaxBuilderOps
  /\ Commit(clear(Heap, Root).h)
  /\ last' = [NoCall EXCEPT !.op = "clear"]

\* builder.reindex()
Reindex ==
  /\ nops < MaxBuilderOps
  /\ Commit(reindex(Heap, Root))
  /\ last' = [NoCall EXCEPT !.op = "reindex", !.prev = last.op]

\* builder.by_tag(tag)
ByTag(tag) ==
  /\ nops < MaxBuilderOps
  /\ Commit(Heap)
  /\ last' = [NoCall EXCEPT !.op = "by_tag", !.tag = tag, !.found = by_tag(Heap, Root, tag)]

BuilderNext ==
  \/ \E value \in {None, IntV(1)} : Child(Root, Td, NoLabel, value, NonePos)
  \/ \E label \in BuilderLabels : Child(Root, Td, label, IntV(1), NonePos)
  \/ \E tag \in {Td, Te} : Child(Root, tag, NoLabel, IntV(1), <<"<">>)
  \/ \E c \in ChildBuilders : Child(c, Td, NoLabel, IntV(1), NonePos)
  \/ \E path \in BuilderDelPaths : BuilderDelItem(path)
  \/ BuilderClear
  \/ Reindex
  \/ \E tag \in {Td, Te} : ByTag(tag)

BuilderSpec == BuilderInit /\ [][BuilderNext]_vars

(***************************************************************************)
(* The calls the program makes on a builder with a grammar.                *)
(***************************************************************************)
Tul == <<"u", "l">>
Tli == <<"l", "i">>
Tdiv == <<"d", "i", "v">>
Tbox == <<"b", "o", "x">>
Tone == <<"o", "n", "e">>
Ta == <<"a">>
Tem == <<"e", "m">>
Tinline == <<"i", "n", "l", "i", "n", "e">>

\* class ListGrammar: item = dict(tag='li'); lst = dict(tag='ul',
\* valid_children={'li': '1:2'})
ListGrammar ==
  << Property(<<"i", "t", "e", "m">>, Tli, NoText, NoText),
     Property(<<"l", "s", "t">>, Tul, Cards(<< <<Tli, <<"1", ":", "2">> >> >>), NoText) >>

\* box takes any number of the tags of the group inline
GroupGrammar ==
  << Property(Tbox, Tbox, Cards(<< <<Tinline, <<"*">> >> >>), NoText),
     Property(Tinline, <<"a", ",", "e", "m">>, NoText, NoText) >>

\* one takes the group inline with cardinality '1'
OneGrammar ==
  << Property(Tinline, <<"a", ",", "e", "m">>, NoText, NoText),
     Property(Tone, Tone, Cards(<< <<Tinline, <<"1">> >> >>), NoText) >>

\* the same with the comma-joined list 'a,em' for the group
OneListGrammar ==
  << Property(Tone, Tone, Cards(<< << <<"a", ",", "e", "m">>, <<"1">> >> >>), NoText) >>

\* @element(valid_parent='ul') def li; @element(valid_children='li') def ul
ParentGrammar ==
  << Element(Tli, NoText, NoText, Text(Tul)),
     Element(Tul, NoText, Text(Tli), NoText) >>

\* a cardinality that is no number, in a property and in an @element
BadPropertyGrammar ==
  << Property(<<"i", "t", "e", "m">>, Tli, NoText, NoText),
     Property(<<"l", "s", "t">>, Tul, Cards(<< <<Tli, <<"x">> >> >>), NoText) >>

BadElementGrammar ==
  << Element(Tli, NoText, NoText, NoText),
     Element(Tul, NoText, Cards(<< <<Tli, <<"1", ":", "x">> >> >>), NoText) >>

\* Each grammar with the child(tag, value=...) calls and the tag methods the
\* program uses with it; a value of None makes a branch.
Programs ==
  { [defs |-> ListGrammar,
     calls |-> {<<Tul, None>>, <<Tli, IntV(1)>>, <<Tul, IntV(1)>>}, methods |-> {Tli}],
    [defs |-> GroupGrammar,
     calls |-> {<<Tbox, None>>, <<Ta, IntV(1)>>, <<Tem, IntV(1)>>, <<Tdiv, IntV(1)>>},
     methods |-> {Ta}],
    [defs |-> OneGrammar,
     calls |-> {<<Tone, None>>, <<Ta, IntV(1)>>, <<Tem, IntV(1)>>}, methods |-> {Tem}],
    [defs |-> OneListGrammar,
     calls |-> {<<Tone, None>>, <<Ta, IntV(1)>>, <<Tem, IntV(1)>>}, methods |-> {Tone}],
    [defs |-> ParentGrammar,
     calls |-> {<<Tul, None>>, <<Tdiv, None>>, <<Tli, IntV(1)>>}, methods |-> {Tdiv}],
    [defs |-> BadPropertyGrammar,
     calls |-> {<<Tul, None>>, <<Tli, IntV(1)>>, <<Tdiv, IntV(1)>>}, methods |-> {Tul}],
    [defs |-> BadElementGrammar, calls |-> {<<Tul, None>>}, methods |-> {Tul}] }

Program == CHOOSE p \in Programs : p.defs = last.defs

\* The builders the program holds: the root and the ones child() returned.
Builders == {c \in Stores : store[c].cls = "TreeStoreBuilder"}

GrammarSetPaths == { <<"x">>, <<"#", "0", ".", "x">> }

\* What every call keeps of the calls before it.
GrammarCall == [NoCall EXCEPT !.defs = last.defs, !.verdict = last.verdict]

\* TreeStoreBuilder(grammar=cls)
GrammarInit ==
  /\ \E p \in Programs :
       LET built(r) ==
             /\ store = r.h.store
             /\ node = r.h.node
             /\ last = [NoCall EXCEPT !.op = "builder", !.defs = p.defs, !.err = r.err]
       IN built(TreeStoreBuilder_init(p.defs))
  /\ nops = 0
  /\ issued = {}

\* target.child(tag, value=value)
GrammarChild(target, tag, value) ==
  LET done(r) ==
        /\ Commit(r.h)
        /\ last' = [GrammarCall EXCEPT !.op = "child", !.target = target, !.tag = tag,
                                       !.value = value, !.err = r.err, !.why = r.why,
                                       !.ret = r.ret]
  IN /\ nops < MaxGrammarOps
     /\ value = None => Cardinality(Builders) < MaxBuilders
     /\ done(child(Heap, target, tag, NoLabel, value, <<>>, NonePos))

\* target.<name>(value)
GrammarTag(target, name, value) ==
  LET done(r) ==
        /\ Commit(r.h)
        /\ last' = [GrammarCall EXCEPT !.op = "tag_method", !.target = target, !.tag = name,
                                       !.value = value, !.err = r.err, !.why = r.why,
                                       !.ret = r.ret]
  IN /\ nops < MaxGrammarOps
     /\ done(tag_method(Heap, target, name, value, NonePos))

\* builder.set_item(path, 1): a node without a tag
GrammarSetItem(path) ==
  LET done(r) ==
        /\ Commit(r.h)
        /\ last' = [GrammarCall EXCEPT !.op = "set_item", !.path = path, !.value = IntV(1),
                                       !.err = r.err, !.why = r.why, !.ret = r.ret]
  IN /\ nops < MaxGrammarOps
     /\ Len(store) > 0
     /\ done(set_item(Heap, Root, path, IntV(1), <<>>, NonePos))

\* builder.set_item('y', TreeStoreBuilder(grammar=cls)): a node without a tag
\* that holds a builder of its own
Ly == <<"y">>

GrammarAttach ==
  LET other == Len(store) + 1
      made(g) == [new_store(Heap, "TreeStoreBuilder") EXCEPT !.store[other].grammar = g.g]
      done(r) ==
        /\ Commit(r.h)
        /\ last' = [GrammarCall EXCEPT !.op = "attach", !.path = Ly,
                                       !.value = StoreV(other), !.err = r.err,
                                       !.why = r.why, !.ret = r.ret]
  IN /\ nops < MaxGrammarOps
     /\ Len(store) > 0
     /\ Cardinality(Builders) < MaxBuilders
     /\ done(set_item(made(Grammar_init(last.defs)), Root, Ly, StoreV(other), <<>>, NonePos))

\* builder.validate()
Validate ==
  LET done(r) ==
        /\ Commit(Heap)
        /\ last' = [GrammarCall EXCEPT !.op = "validate", !.err = r.err, !.tag = r.tag,
                                       !.label = r.parent, !.verdict = r.err,
                                       !.earlier = last.verdict, !.prev = last.op]
  IN /\ nops < MaxGrammarOps
     /\ Len(store) > 0
     /\ done(validate(Heap, Root))

GrammarNext ==
  \/ \E target \in Builders : \E call \in Program.calls :
       GrammarChild(target, call[1], call[2])
  \/ \E target \in Builders : \E name \in Program.methods :
       GrammarTag(target, name, IntV(1))
  \/ \E path \in GrammarSetPaths : GrammarSetItem(path)
  \/ GrammarAttach
  \/ Validate

GrammarSpec == GrammarInit /\ [][GrammarNext]_vars

(***************************************************************************)
(* The calls the program makes with a BuildingBuilder on a plain store.    *)
(***************************************************************************)
Tapartment == <<"a", "p", "a", "r", "t", "m", "e", "n", "t">>
Tkitchen == <<"k", "i", "t", "c", "h", "e", "n">>
Tbathroom == <<"b", "a", "t", "h", "r", "o", "o", "m">>
Tfridge == <<"f", "r", "i", "d", "g", "e">>
Tbed == <<"b", "e", "d">>

\* BuildingBuilder()
TheBuilder == element_tags(BuildingBuilder, 1, <<>>)

\* The child(target, tag, value=...) calls of the program; None makes a branch.
CheckCalls ==
  { <<Tapartment, None>>, <<Tapartment, IntV(1)>>, <<Tkitchen, None>>,
    <<Tbathroom, IntV(1)>>, <<Tfridge, IntV(1)>>, <<Tbed, IntV(1)>> }

\* store = TreeStore(); builder = BuildingBuilder()
CheckInit ==
  /\ store = <<TreeStore_init("TreeStore")>>
  /\ node = <<>>
  /\ last = [NoCall EXCEPT !.op = "builder", !.err = TheBuilder.err]
  /\ nops = 0
  /\ issued = {}

\* builder.child(target, tag, value=value)
CheckChild(target, tag, value) ==
  LET done(r) ==
        /\ Commit(r.h)
        /\ last' = [NoCall EXCEPT !.op = "child", !.target = target, !.tag = tag,
                                   !.value = value, !.err = r.err, !.why = r.why,
                                   !.ret = r.ret]
  IN /\ nops < MaxCheckOps
     /\ value = None => Len(store) < MaxCheckStores
     /\ done(BuilderBase_child(Heap, target, tag, NoLabel, value, NonePos))

\* target.set_item('fridge', 1): a node without a tag
CheckSetItem(target) ==
  LET done(r) ==
        /\ Commit(r.h)
        /\ last' = [NoCall EXCEPT !.op = "set_item", !.target = target, !.path = Tfridge,
                                   !.value = IntV(1), !.err = r.err, !.why = r.why,
                                   !.ret = r.ret]
  IN /\ nops < MaxCheckOps
     /\ done(set_item(Heap, target, Tfridge, IntV(1), <<>>, NonePos))

\* errors = builder.check(store)
Check ==
  /\ nops < MaxCheckOps
  /\ Commit(Heap)
  /\ last' = [NoCall EXCEPT !.op = "check",
                             !.errors = check(Heap, TheBuilder.tags, Root, NoTag)]

CheckNext ==
  \/ \E target \in Stores : \E call \in CheckCalls : CheckChild(target, call[1], call[2])
  \/ \E target \in Stores : CheckSetItem(target)
  \/ Check

CheckSpec == CheckInit /\ [][CheckNext]_vars

(***************************************************************************)
(* C1.  In every reachable state, each container's label map and order     *)
(* sequence have the same members: every label of the map is the label of  *)
(* exactly one node of the order sequence, and every node of the order     *)
(* sequence is the node the map holds for its label.                       *)
(***************************************************************************)
MapOrderAgreeIn(h, c) ==
  LET d == h.store[c].nodes
      o == h.store[c].order
  IN /\ \A i \in 1..Len(d) :
          Cardinality({p \in 1..Len(o) : h.node[o[p]].label = d[i][1]}) = 1
     /\ \A p \in 1..Len(o) :
          /\ dict_has(d, h.node[o[p]].label)
          /\ dict_get(d, h.node[o[p]].label) = o[p]

C1_MapOrderAgree == \A c \in Stores : MapOrderAgreeIn(Heap, c)

(***************************************************************************)
(* C2.  The structure is a strict tree: every node held by a container has *)
(* that container as its parent, every branch node's child container has   *)
(* that node as its parent, no container is the value of two nodes, and no *)
(* container contains itself transitively.                                 *)
(***************************************************************************)
C2_StrictTree ==
  /\ \A c \in Stores : \A n \in Held(Heap, c) : node[n].parent = c
  /\ \A n \in HeldSomewhere(Heap) : is_branch(Heap, n) => store[node[n].value.v].parent = n
  /\ \A n \in Nodes : \A m \in Nodes :
       (n # m /\ is_branch(Heap, n) /\ is_branch(Heap, m)) => node[n].value.v # node[m].value.v
  /\ \A c \in Stores : c \notin Descendants(Heap, c)

(***************************************************************************)
(* Resolution of a path of labels through the label maps of a heap: the    *)
(* store reached after i segments and the node named by segment i, NoRef    *)
(* when the path does not lead that far.                                   *)
(***************************************************************************)
RECURSIVE NodeAt(_, _, _)
StoreAt(h, parts, i) ==
  IF i = 0 THEN Root
  ELSE LET n == NodeAt(h, parts, i)
       IN IF n # NoRef /\ is_branch(h, n) THEN h.node[n].value.v ELSE NoRef

NodeAt(h, parts, i) ==
  LET s == StoreAt(h, parts, i - 1)
  IN IF s # NoRef /\ dict_has(h.store[s].nodes, parts[i])
     THEN dict_get(h.store[s].nodes, parts[i]) ELSE NoRef

IsLabelPath(path) ==
  LET parts == split(path, ".")
  IN /\ Len(parts) >= 2
     /\ \A i \in 1..Len(parts) : Len(parts[i]) > 0 /\ ~_parse_path_segment(parts[i]).is_pos

Post == [store |-> store', node |-> node']

IsNewNode(n) == n > Len(node)
IsNewStore(s) == s > Len(store)

(***************************************************************************)
(* C3.  set on a multi-segment path of labels resolves with autocreate:    *)
(* every missing intermediate label is created as an empty branch node     *)
(* appended to its container; a leaf met before the final segment becomes  *)
(* a branch and keeps its label, attributes and position; an intermediate  *)
(* branch that already exists is traversed without being altered.          *)
(***************************************************************************)
AutocreatedAt(parts, i) ==
  LET spre == StoreAt(Heap, parts, i - 1)
      npre == NodeAt(Heap, parts, i)
      spost == StoreAt(Post, parts, i - 1)
      npost == NodeAt(Post, parts, i)
  IN /\ npost # NoRef
     /\ is_branch(Post, npost)
     /\ npre = NoRef =>
          /\ IsNewNode(npost)
          /\ node'[npost].label = parts[i]
          /\ node'[npost].attr = <<>>
          /\ node'[npost].parent = spost
          /\ IsNewStore(node'[npost].value.v)
          /\ store'[node'[npost].value.v].parent = npost
          /\ \A m \in Held(Post, node'[npost].value.v) : IsNewNode(m)
          /\ Len(store'[node'[npost].value.v].order) <= 1
          /\ store'[spost].order =
               IF spre # NoRef THEN Append(store[spre].order, npost) ELSE <<npost>>
     /\ (npre # NoRef /\ ~is_branch(Heap, npre)) =>
          /\ npost = npre
          /\ node'[npre] = [node[npre] EXCEPT !.value = node'[npre].value]
          /\ IsNewStore(node'[npre].value.v)
          /\ store'[spre].order = store[spre].order
          /\ store'[spre].nodes = store[spre].nodes
     /\ (npre # NoRef /\ is_branch(Heap, npre)) =>
          /\ npost = npre
          /\ node'[npre] = node[npre]

C3_Autocreate ==
  [][(last'.op = "set_item" /\ IsLabelPath(last'.path)) =>
       \A i \in 1..(Len(split(last'.path, ".")) - 1) :
          AutocreatedAt(split(last'.path, "."), i)]_vars

\* set('a.b') has turned the leaf a, built with attribute k=1 and followed by
\* b, into a branch holding b, still first and still carrying k=1.
C3_Witness ==
  /\ last.op = "set_item"
  /\ last.path = <<"a", ".", "b">>
  /\ last.err = ""
  /\ Len(store[Root].order) = 2
  /\ node[store[Root].order[1]].label = La
  /\ is_branch(Heap, store[Root].order[1])
  /\ dict_as_map(node[store[Root].order[1]].attr) = {<<Ak, IntV(1)>>}
  /\ dict_has(store[node[store[Root].order[1]].value.v].nodes, Lb)

(***************************************************************************)
(* C4.  After set(p, v) with a non-null scalar v returns without error,    *)
(* get(p) returns v, for every path p of labels and positional segments.   *)
(***************************************************************************)
C4_SetThenGet ==
  (last.op = "set_item" /\ last.err = "" /\ last.value.t = "int") =>
     /\ getitem(Heap, Root, last.path).err = ""
     /\ getitem(Heap, Root, last.path).ret = last.value

(***************************************************************************)
(* C5.  set returns the container that holds the final node when the write *)
(* created or updated a leaf, and the final node's own child container     *)
(* when it created or updated a branch.                                    *)
(***************************************************************************)
C5_SetReturns ==
  (last.op = "set_item" /\ last.err = "") =>
     LET t == _htraverse(Heap, Root, last.path, FALSE)
         n == dict_get(store[t.ret].nodes, final_label(last.path))
     IN /\ t.err = ""
        /\ dict_has(store[t.ret].nodes, final_label(last.path))
        /\ last.ret = IF is_branch(Heap, n) THEN node[n].value.v ELSE t.ret

Keys(d) == Range(dict_keys(d))

\* parent_store and label of the final segment, resolved without autocreate.
FinalOf(h, path) ==
  LET t == IF Contains(path, ".") THEN _htraverse(h, Root, path, FALSE) ELSE Return(h, Root)
  IN [exists |-> t.err = "" /\ dict_has(h.store[t.ret].nodes, final_label(path)),
      parent_store |-> t.ret,
      n |-> IF t.err = "" /\ dict_has(h.store[t.ret].nodes, final_label(path))
            THEN dict_get(h.store[t.ret].nodes, final_label(path)) ELSE NoRef]

(***************************************************************************)
(* C6.  set on a path whose final node already exists updates that node in *)
(* place: its attributes become the old ones overwritten by the supplied   *)
(* ones, its value is replaced only when a non-null value is supplied, and *)
(* every label map, every order sequence and every other node are left     *)
(* unchanged, even when a _position directive is supplied.                 *)
(***************************************************************************)
UpdatedInPlace(n, value, attr) ==
  /\ Keys(node'[n].attr) = Keys(node[n].attr) \cup Keys(attr)
  /\ \A key \in Keys(node'[n].attr) :
       dict_get(node'[n].attr, key) =
         IF dict_has(attr, key) THEN dict_get(attr, key) ELSE dict_get(node[n].attr, key)
  /\ node'[n].value = IF value # None THEN value ELSE node[n].value
  /\ node'[n].label = node[n].label
  /\ node'[n].parent = node[n].parent
  /\ node'[n].tag = node[n].tag
  /\ Len(node') = Len(node)
  /\ \A m \in Nodes \ {n} : node'[m] = node[m]
  /\ \A s \in Stores : store'[s] = store[s]

AttrWritten(path, value) ==
  LET r == get_node(Heap, Root, rsplit1(path, "?")[1])
      attr_name == rsplit1(path, "?")[2]
  IN IF r.err # ""
     THEN /\ last'.err = "KeyError"
          /\ store' = store
          /\ node' = node
     ELSE /\ last'.err = ""
          /\ store' = store
          /\ Len(node') = Len(node)
          /\ \A m \in Nodes \ {r.ret} : node'[m] = node[m]
          /\ node'[r.ret] = [node[r.ret] EXCEPT !.attr = node'[r.ret].attr]
          /\ Keys(node'[r.ret].attr) = Keys(node[r.ret].attr) \cup {attr_name}
          /\ dict_get(node'[r.ret].attr, attr_name) = value
          /\ \A key \in Keys(node[r.ret].attr) \ {attr_name} :
               dict_get(node'[r.ret].attr, key) = dict_get(node[r.ret].attr, key)

C7_AttrWrite ==
  [][(last'.op = "setitem" /\ Contains(last'.path, "?")) =>
       AttrWritten(last'.path, last'.value)]_vars

\* store['a.b?k'] = 2 failed with KeyError on a store where a is a leaf, and
\* a is still a leaf.
C7_Witness ==
  /\ last.op = "setitem"
  /\ last.path = <<"a", ".", "b", "?", "k">>
  /\ last.err = "KeyError"
  /\ dict_has(store[Root].nodes, La)
  /\ ~is_branch(Heap, dict_get(store[Root].nodes, La))
  /\ Len(store) = 1

(***************************************************************************)
(* C8.  delete(path) of an existing node removes exactly that node from    *)
(* the label map and the order sequence of its container and returns it,   *)
(* leaving all other nodes and their relative order unchanged; delete, and *)
(* pop with a default, of a path that does not resolve create nothing and  *)
(* leave the tree unchanged, delete raising NotFound (KeyError) and pop    *)
(* returning the default.                                                  *)
(***************************************************************************)
Deleted(op, path, default) ==
  LET f == FinalOf(Heap, path)
  IN IF f.exists
     THEN /\ last'.err = ""
          /\ op = "del_item" => last'.ret = f.n
          /\ ~dict_has(store'[f.parent_store].nodes, final_label(path))
          /\ dict_as_map(store'[f.parent_store].nodes) =
               dict_as_map(store[f.parent_store].nodes) \ {<<final_label(path), f.n>>}
          /\ store'[f.parent_store].order =
               SelectSeq(store[f.parent_store].order, LAMBDA m : m # f.n)
          /\ \A s \in Stores \ {f.parent_store} : store'[s] = store[s]
          /\ node' = node
     ELSE /\ store' = store
          /\ node' = node
          /\ op = "del_item" => last'.err = "KeyError"
          /\ op = "pop" => (last'.err = "" /\ last'.val = default)

C8_Delete ==
  [][(last'.op \in {"del_item", "pop"}) => Deleted(last'.op, last'.path, last'.value)]_vars

(***************************************************************************)
(* C9.  Reading a path that has more segments after a leaf node always     *)
(* surfaces an error to the caller: no read operation, get with a default  *)
(* included, recovers from it by returning a value or the default.         *)
(***************************************************************************)
NodePath(path) == IF Contains(path, "?") THEN rsplit1(path, "?")[1] ELSE path

C9_NotABranchSurfaced ==
  (/\ last.op \in {"get_item", "getitem"}
   /\ get_node(Heap, Root, NodePath(last.path)).why = "leaf") => last.err = "KeyError"

(***************************************************************************)
(* C10.  Inserting a node with a new label into a container of length n    *)
(* places it last for append/default, first for prepend, immediately       *)
(* before or after the node with the named label for before:<label> and    *)
(* after:<label>, and immediately before or after the node that was at     *)
(* position N for before:#N and after:#N, for every N with -n <= N < n;    *)
(* all pre-existing nodes keep their relative order.                       *)
(***************************************************************************)
InsertAt(o, i, x) == SubSeq(o, 1, i) \o <<x>> \o SubSeq(o, i + 1, Len(o))

HasLabel(o, label) == \E p \in 1..Len(o) : node[o[p]].label = label

FirstWithLabel(o, label) ==
  CHOOSE p \in 1..Len(o) :
    node[o[p]].label = label /\ \A q \in 1..(p - 1) : node[o[q]].label # label

Normalised(N, n) == IF N < 0 THEN n + N ELSE N

InRange(text, n) == int_ok(text) /\ 0 - n <= int(text) /\ int(text) < n

\* The directives the claim covers, for the order sequence o.
Covered(o, pos) ==
  \/ pos \in {NonePos, <<">">>, <<"<">>}
  \/ /\ Len(pos) > 2
     /\ SubSeq(pos, 1, 2) \in {<<"<", "#">>, <<">", "#">>}
     /\ InRange(Tail_n(pos, 2), Len(o))
  \/ /\ Len(pos) > 1
     /\ pos[1] \in {"<", ">"}
     /\ pos[2] # "#"
     /\ HasLabel(o, Tail(pos))

Placed(o, pos, x) ==
  IF pos \in {NonePos, <<">">>} THEN Append(o, x)
  ELSE IF pos = <<"<">> THEN <<x>> \o o
  ELSE IF SubSeq(pos, 1, 2) = <<"<", "#">>
  THEN InsertAt(o, Normalised(int(Tail_n(pos, 2)), Len(o)), x)
  ELSE IF SubSeq(pos, 1, 2) = <<">", "#">>
  THEN InsertAt(o, Normalised(int(Tail_n(pos, 2)), Len(o)) + 1, x)
  ELSE IF pos[1] = "<" THEN InsertAt(o, FirstWithLabel(o, Tail(pos)) - 1, x)
  ELSE InsertAt(o, FirstWithLabel(o, Tail(pos)), x)

C10_InsertPosition ==
  [][(/\ last'.op = "set_item"
      /\ ~Contains(last'.path, ".")
      /\ ~dict_has(store[Root].nodes, last'.path)
      /\ Covered(store[Root].order, last'.pos)) =>
       /\ last'.err = ""
       /\ store'[Root].order = Placed(store[Root].order, last'.pos, Len(node) + 1)]_vars

(***************************************************************************)
(* C11.  set with a _position string that is none of the directives        *)
(* (append, prepend, before/after a label, before/after/at #N with N an    *)
(* integer) puts the new node last in its container and never raises.      *)
(***************************************************************************)
\* The directive forms of the _position argument.
Recognised(pos) ==
  \/ pos \in {<<">">>, <<"<">>}
  \/ Len(pos) > 1 /\ pos[1] \in {"<", ">"}
  \/ Len(pos) > 1 /\ pos[1] = "#" /\ int_ok(Tail(pos))

C11_UnknownPositionAppends ==
  [][(/\ last'.op = "set_item"
      /\ ~Contains(last'.path, ".")
      /\ ~dict_has(store[Root].nodes, last'.path)
      /\ last'.pos # NonePos
      /\ ~Recognised(last'.pos)) =>
       /\ last'.err = ""
       /\ store'[Root].order = Append(store[Root].order, Len(node) + 1)]_vars

\* The containers a path from the root can reach.
Reachable == {Root} \cup Descendants(Heap, Root)

(***************************************************************************)
(* C12.  In every container reachable from the root, of length n, the node *)
(* at position i is the node that get resolves for its label, for '#i' and *)
(* for '#(i-n)'; on an empty container every positional index is NotFound  *)
(* (KeyError).                                                             *)
(***************************************************************************)
ResolvesTo(c, segment, n) ==
  LET is(r) == r.err = "" /\ r.ret = n IN is(get_node(Heap, c, segment))

C12_AddressingAgrees ==
  \A c \in Reachable :
    LET o == store[c].order
        n == Len(o)
    IN /\ \A i \in 0..(n - 1) :
            /\ ResolvesTo(c, node[o[i + 1]].label, o[i + 1])
            /\ ResolvesTo(c, <<"#">> \o str(i), o[i + 1])
            /\ ResolvesTo(c, <<"#">> \o str(i - n), o[i + 1])
       /\ n = 0 => \A k \in (0 - 2)..2 : get_node(Heap, c, <<"#">> \o str(k)).err = "KeyError"

(***************************************************************************)
(* Where a node sits: the node whose value is container c, and the         *)
(* positions and the labels on the way from the root down to node n.       *)
(***************************************************************************)
OwnerNode(c) == CHOOSE n \in Nodes : node[n].value = StoreV(c)

RECURSIVE PosPath(_)
PosPath(n) ==
  LET c == node[n].parent
      p == list_index(store[c].order, n)
  IN IF c = Root THEN <<p>> ELSE Append(PosPath(OwnerNode(c)), p)

RECURSIVE LabelPath(_)
LabelPath(n) ==
  LET c == node[n].parent
  IN IF c = Root THEN <<node[n].label>> ELSE Append(LabelPath(OwnerNode(c)), node[n].label)

RECURSIVE join(_, _)
join(sep, parts) ==
  IF Len(parts) = 1 THEN parts[1]
  ELSE join(sep, SubSeq(parts, 1, Len(parts) - 1)) \o sep \o parts[Len(parts)]

\* p comes before q in depth-first pre-order: p is a proper prefix of q, or
\* p is smaller at the first position where they differ.
Before(p, q) ==
  \/ Len(p) < Len(q) /\ SubSeq(q, 1, Len(p)) = p
  \/ \E i \in 1..Len(p) :
       /\ i <= Len(q)
       /\ SubSeq(p, 1, i - 1) = SubSeq(q, 1, i - 1)
       /\ p[i] < q[i]

\* The nodes in the order sequences of the containers reachable from the root.
Subtree == UNION {Range(store[c].order) : c \in Reachable}

PreOrder(visited) ==
  /\ Range(visited) = Subtree
  /\ Len(visited) = Cardinality(Subtree)
  /\ \A i \in 1..Len(visited) : \A j \in (i + 1)..Len(visited) :
       Before(PosPath(visited[i]), PosPath(visited[j]))

(***************************************************************************)
(* C13.  walk() yields every node of the subtree exactly once in           *)
(* depth-first pre-order, each with the labels from the walked container   *)
(* down to the node joined by '.'; walk(callback) calls the callback on    *)
(* the nodes in the same sequence.                                         *)
(***************************************************************************)
C13_WalkPreOrder ==
  /\ last.op = "walk" =>
       /\ PreOrder([i \in 1..Len(last.out) |-> last.out[i][2]])
       /\ \A i \in 1..Len(last.out) :
            last.out[i][1] = join(<<".">>, LabelPath(last.out[i][2]))
  /\ last.op = "walk_callback" => PreOrder(last.calls)

(***************************************************************************)
(* The tree below container c as a value: for each node in order its       *)
(* label, tag, attribute map and leaf value or children.                   *)
(***************************************************************************)
RECURSIVE TreeOf(_, _)
TreeOf(h, c) ==
  [i \in 1..Len(h.store[c].order) |->
     LET n == h.store[c].order[i]
     IN [label |-> h.node[n].label,
         tag |-> h.node[n].tag,
         attr |-> dict_as_map(h.node[n].attr),
         branch |-> is_branch(h, n),
         value |-> IF is_branch(h, n) THEN None ELSE h.node[n].value,
         children |-> IF is_branch(h, n) THEN TreeOf(h, h.node[n].value.v) ELSE <<>>]]

(***************************************************************************)
(* C14.  The container constructed from as_dict() of a tree has the same   *)
(* labels in the same order, the same tags, the same attribute maps and    *)
(* the same leaf values at every level as that tree.                       *)
(***************************************************************************)
C14_RoundTrip ==
  last.op = "from_dict" => TreeOf(Heap, last.ret) = TreeOf(Heap, Root)

(***************************************************************************)
(* C16.  Every label that child(tag) generates is distinct from the label  *)
(* of every node present in the container at that moment.                  *)
(***************************************************************************)
\* The label a child(tag) call without a label generates in this state.
GeneratedLabel(c, tag) == auto_label(tag, generated_number(Heap, c, tag))

C16_AutoLabelFresh ==
  [][(last'.op = "child" /\ last'.label = NoLabel) =>
       \A n \in Held(Heap, last'.target) :
          node[n].label # GeneratedLabel(last'.target, last'.tag)]_vars

(***************************************************************************)
(* C17.  For each builder container and each tag, the number of every      *)
(* newly generated label tag_n is greater than every number generated for  *)
(* that container and tag before, whatever deletions, clear or reindex     *)
(* calls happened in between.                                              *)
(***************************************************************************)
C17_NumbersIncrease ==
  [][(last'.op = "child" /\ last'.label = NoLabel) =>
       \A t \in issued :
          (t[1] = last'.target /\ t[2] = last'.tag) =>
             t[3] < generated_number(Heap, last'.target, last'.tag)]_vars

(***************************************************************************)
(* C18.  After reindex(), in the builder and in every branch child         *)
(* container below it, for each tag the k direct children whose labels     *)
(* were auto-generated carry exactly the labels tag_0 .. tag_(k-1), in the *)
(* numeric order they had before, and every node whose label was given     *)
(* explicitly keeps its label.                                             *)
(***************************************************************************)
\* The nodes whose label was generated by child(tag).
AutoLabelled == {t[4] : t \in issued}

Renumbered(c, tag) ==
  LET A == {n \in Range(store[c].order) : n \in AutoLabelled /\ node[n].tag = tag}
  IN /\ {node'[n].label : n \in A} = {auto_label(tag, i) : i \in 0..(Cardinality(A) - 1)}
     /\ \A x \in A : \A y \in A :
          label_number(node[x].label) < label_number(node[y].label) =>
            label_number(node'[x].label) < label_number(node'[y].label)

C18_Reindex ==
  [][last'.op = "reindex" =>
       /\ \A c \in Reachable : \A tag \in {Td, Te} : Renumbered(c, tag)
       /\ \A n \in Subtree \ AutoLabelled : node'[n].label = node[n].label]_vars

(***************************************************************************)
(* C19.  reindex() called immediately after reindex() changes nothing: no  *)
(* node, no label map, no order sequence and no per-tag counter.           *)
(***************************************************************************)
C19_ReindexIdempotent ==
  [][(last.op = "reindex" /\ last'.op = "reindex") =>
       /\ node' = node
       /\ Len(store') = Len(store)
       /\ \A c \in Stores :
            /\ store'[c].order = store[c].order
            /\ dict_as_map(store'[c].nodes) = dict_as_map(store[c].nodes)
            /\ dict_as_map(store'[c].tag_counters) = dict_as_map(store[c].tag_counters)]_vars

\* A second reindex in a row, on a builder where the first one had renumbered
\* a node after a deletion.
C19_Witness ==
  /\ last.op = "reindex"
  /\ last.prev = "reindex"
  /\ \E t \in issued :
       /\ t[4] \in Range(store[t[1]].order)
       /\ node[t[4]].label # auto_label(t[2], t[3])

(***************************************************************************)
(* C20.  by_tag(tag) returns exactly the direct children of the container  *)
(* whose tag is tag, in the container's positional order.                  *)
(***************************************************************************)
C20_ByTagInOrder ==
  last.op = "by_tag" =>
    LET has_tag(n) == node[n].tag = last.tag
    IN last.found = SelectSeq(store[Root].order, has_tag)

(***************************************************************************)
(* C15.  update(other, ignore_none) leaves exactly the deep merge: for     *)
(* each entry of other in order, when the label exists and both nodes are  *)
(* branches the containers are merged recursively; when it exists          *)
(* otherwise the attributes are unioned, other's winning, and the value is *)
(* replaced by other's, unless ignore_none is set and other's value is     *)
(* None; when the label is absent a copy of the entry is appended.  Every  *)
(* other entry of the target keeps value, attributes and position.         *)
(***************************************************************************)
AttrUnion(A, B) == {p \in A : ~\E q \in B : q[1] = p[1]} \cup B

FirstLabelled(T, label) ==
  CHOOSE i \in 1..Len(T) : T[i].label = label /\ \A j \in 1..(i - 1) : T[j].label # label

\* branch_attr tells whether the attributes are unioned for two branches too.
RECURSIVE Merge(_, _, _, _)
MergeEntry(T, e, ignore_none, branch_attr) ==
  IF \E i \in 1..Len(T) : T[i].label = e.label
  THEN LET i == FirstLabelled(T, e.label)
       IN IF T[i].branch /\ e.branch
          THEN [T EXCEPT ![i].children = Merge(@, e.children, ignore_none, branch_attr),
                         ![i].attr = IF branch_attr THEN AttrUnion(@, e.attr) ELSE @]
          ELSE IF ignore_none /\ ~e.branch /\ e.value = None
          THEN [T EXCEPT ![i].attr = AttrUnion(@, e.attr)]
          ELSE [T EXCEPT ![i].attr = AttrUnion(@, e.attr), ![i].branch = e.branch,
                         ![i].value = e.value, ![i].children = e.children]
  ELSE Append(T, e)

Merge(T, O, ignore_none, branch_attr) ==
  IF Len(O) = 0 THEN T
  ELSE Merge(MergeEntry(T, O[1], ignore_none, branch_attr), Tail(O), ignore_none, branch_attr)

\* The tree of TreeStore(other)
OtherTree(other) == TreeOf(TreeStore_from_list(other).h, Root)

C15_DeepMerge ==
  [][last'.op = "update" /\ last'.err = ""
       => TreeOf(Post, Root)
            = Merge(TreeOf(Heap, Root), OtherTree(last'.other), last'.ignore_none, FALSE)]_vars

(***************************************************************************)
(* C29.  A set_item call that raises leaves the tree as it was before the  *)
(* call: every container keeps its label map and its order sequence, and   *)
(* every node its label, attributes, value and parent; no autocreated      *)
(* node remains and no leaf has become a branch.                           *)
(***************************************************************************)
C29_FailedSetLeavesTree ==
  [][(last'.op = "set_item" /\ last'.err # "") =>
       /\ \A c \in Stores : store'[c] = store[c]
       /\ \A n \in Nodes : node'[n] = node[n]]_vars

(***************************************************************************)
(* C21.  Validation is not enforced during construction: child(tag) on any *)
(* builder, and the tag method of any tag the grammar configures, returns  *)
(* and puts a new node with that tag last in the target, whatever the tag, *)
(* the owning node's tag and the number of siblings are; only validate()   *)
(* raises InvalidChildError, InvalidParentError, MissingChildError or      *)
(* TooManyChildrenError.                                                   *)
(***************************************************************************)
ValidationErrors ==
  {"InvalidChildError", "InvalidParentError", "MissingChildError", "TooManyChildrenError"}

\* The tag of the node that owns builder c, None at the root.
OwnerTag(c) == IF store[c].parent = NoRef THEN NoTag ELSE node[store[c].parent].tag

Constructs ==
  \/ last'.op = "child"
  \/ /\ last'.op = "tag_method"
     /\ has_config(store[last'.target].grammar, last'.tag)

TheGrammar == store[Root].grammar

\* The nodes validate() meets from container c on: the tagged nodes, and
\* what it meets below those that are branches.
RECURSIVE Walked(_)
Walked(c) ==
  LET tagged == {n \in Range(store[c].order) : node[n].tag # NoTag}
  IN tagged \cup UNION {Walked(node[n].value.v) : n \in {m \in tagged : is_branch(Heap, m)}}

\* The children of a node in order; a leaf has none.
Children(n) == IF is_branch(Heap, n) THEN store[node[n].value.v].order ELSE <<>>

Count(n, tag) ==
  Cardinality({i \in 1..Len(Children(n)) : node[Children(n)[i]].tag = tag})

HasRule(tag) ==
  /\ tag # NoTag
  /\ has_config(TheGrammar, tag)
  /\ get_config(TheGrammar, tag).has_children

RuleOf(tag) == get_config(TheGrammar, tag).valid_children

(***************************************************************************)
(* C22.  With rules that name plain tags and no valid_parent, in a tree    *)
(* where the children of every node with a rule all carry tags the rule    *)
(* names: validate() passes exactly when, for every such node P and every  *)
(* tag T of its rule, the number of T children is within (min, max); it    *)
(* raises MissingChildError only for a count below min and                 *)
(* TooManyChildrenError only for a count above a bounded max, and nothing  *)
(* else.                                                                   *)
(***************************************************************************)
PlainRules ==
  /\ ~TheGrammar.none
  /\ \A i \in 1..Len(TheGrammar.tag_to_config) :
       /\ ~TheGrammar.tag_to_config[i][2].has_parent
       /\ \A k \in 1..Len(TheGrammar.tag_to_config[i][2].valid_children) :
            LET key == TheGrammar.tag_to_config[i][2].valid_children[k][1]
            IN expand_name(TheGrammar, key) = <<key>>

AllowedChildren(n) ==
  \A i \in 1..Len(Children(n)) : dict_has(RuleOf(node[n].tag), node[Children(n)[i]].tag)

RuledNodes == {n \in Walked(Root) : HasRule(node[n].tag)}

Short(n) ==
  \E k \in 1..Len(RuleOf(node[n].tag)) :
    Count(n, RuleOf(node[n].tag)[k][1]) < RuleOf(node[n].tag)[k][2].min

Over(n) ==
  \E k \in 1..Len(RuleOf(node[n].tag)) :
    /\ RuleOf(node[n].tag)[k][2].bounded
    /\ Count(n, RuleOf(node[n].tag)[k][1]) > RuleOf(node[n].tag)[k][2].max

C22_Cardinality ==
  (/\ last.op = "validate"
   /\ PlainRules
   /\ \A n \in RuledNodes : AllowedChildren(n)) =>
     /\ last.err \in {"", "MissingChildError", "TooManyChildrenError"}
     /\ last.err = "" <=> \A n \in RuledNodes : ~Short(n) /\ ~Over(n)
     /\ last.err = "MissingChildError" => \E n \in RuledNodes : Short(n)
     /\ last.err = "TooManyChildrenError" => \E n \in RuledNodes : Over(n)

(***************************************************************************)
(* C23.  When every rule of the grammar has cardinality '*' and names tags *)
(* or groups: validate() passes whatever the number of children, as long   *)
(* as every tagged child of a node with a rule carries a tag the rule      *)
(* names or a member tag of a group it names, and raises InvalidChildError *)
(* for a child with another tag as soon as there is one.                   *)
(***************************************************************************)
\* The tags a key of a rule stands for, read from the class definitions: the
\* tags of the group of that name, or the key itself.
Members(key) ==
  LET group(d) == d.style = "property" /\ d.name = key
      groups == SelectSeq(last.defs, group)
  IN IF Len(groups) > 0 THEN Range(tag_list(groups[1].tag.s)) ELSE {key}

AllowedTags(tag) == UNION {Members(RuleOf(tag)[k][1]) : k \in 1..Len(RuleOf(tag))}

StarRules ==
  /\ ~TheGrammar.none
  /\ \A i \in 1..Len(TheGrammar.tag_to_config) :
       /\ ~TheGrammar.tag_to_config[i][2].has_parent
       /\ \A k \in 1..Len(TheGrammar.tag_to_config[i][2].valid_children) :
            TheGrammar.tag_to_config[i][2].valid_children[k][2] = CardFrom(0)

\* The tagged children of n whose tag the rule of n does not allow.
Strangers(n) ==
  {m \in Range(Children(n)) : node[m].tag # NoTag /\ node[m].tag \notin AllowedTags(node[n].tag)}

C23_GroupExpansion ==
  (last.op = "validate" /\ StarRules) =>
     /\ last.err \in {"", "InvalidChildError"}
     /\ last.err = "" <=> \A n \in RuledNodes : Strangers(n) = {}
     /\ last.err = "InvalidChildError" =>
          \E n \in RuledNodes : \E m \in Strangers(n) :
            node[m].tag = last.tag /\ node[n].tag = last.label

\* a box that holds a member of the group and a div is rejected for the div
C23_Witness ==
  /\ last.op = "validate"
  /\ StarRules
  /\ last.err = "InvalidChildError"
  /\ last.tag = Tdiv
  /\ \E n \in RuledNodes : Count(n, Ta) + Count(n, Tem) >= 1 /\ Count(n, Tdiv) >= 1

(***************************************************************************)
(* C24.  validate() raises InvalidParentError for every tree in which some *)
(* node met by the walk carries a tag that declares valid_parent while the *)
(* tag of the node owning its container (None at the root) is not in that  *)
(* set, when the tree has no violation of another kind.                    *)
(***************************************************************************)
\* The tags a definition is stored for.
DefTags(d) == Range(tag_list(IF truthy(d.tag) THEN d.tag.s ELSE d.name))

\* The definitions that declare valid_parent for the tag.
ParentRules(tag) ==
  {i \in 1..Len(last.defs) :
     tag \in DefTags(last.defs[i]) /\ last.defs[i].valid_parent.kind = "str"}

\* The tag of the node that owns the container holding n, None at the root.
ParentTag(n) == OwnerTag(node[n].parent)

Misplaced ==
  {n \in Walked(Root) :
     \E i \in ParentRules(node[n].tag) :
       ParentTag(n) \notin Range(tag_list(last.defs[i].valid_parent.s))}

C24_InvalidParent ==
  (/\ last.op = "validate"
   /\ ~TheGrammar.none
   /\ \A n \in RuledNodes : Strangers(n) = {} /\ ~Short(n) /\ ~Over(n)
   /\ Misplaced # {}) =>
     last.err = "InvalidParentError"

(***************************************************************************)
(* C25.  A grammar class with a cardinality whose bound is not numeric, in *)
(* a property or in an @element method, gives no builder: instantiating it *)
(* raises, and no tree is ever built or validated with it.                 *)
(***************************************************************************)
NonNumeric(spec) ==
  /\ spec \notin {<<"*">>, <<"+">>, <<"?">>}
  /\ \E i \in 1..Len(spec) : spec[i] \notin Digits \cup {":", "-"}

MalformedDefinition(d) ==
  /\ d.valid_children.kind = "dict"
  /\ \E k \in 1..Len(d.valid_children.d) : NonNumeric(d.valid_children.d[k][2])

C25_MalformedCardinalityRaises ==
  (\E i \in 1..Len(last.defs) : MalformedDefinition(last.defs[i])) =>
     /\ last.op = "builder"
     /\ last.err # ""
     /\ Len(store) = 0

(***************************************************************************)
(* C27.  validate() keeps no state: it leaves every container, node and    *)
(* grammar as it was; called twice in a row it gives the same outcome      *)
(* twice; and its outcome is always the one a walk of the present tree     *)
(* gives, whatever the validations before a mutation returned.             *)
(***************************************************************************)
\* The outcome of a walk of the whole tree of heap h, from scratch.
FreshOutcome(h) ==
  IF h.store[Root].grammar.none THEN Invalid("ValueError", NoTag, NoTag)
  ELSE _validate_node(h, h.store[Root].grammar, Root, NoTag)

SpreadRules ==
  /\ ~TheGrammar.none
  /\ \A i \in 1..Len(TheGrammar.tag_to_config) : ~TheGrammar.tag_to_config[i][2].has_parent
  /\ \E i \in 1..Len(TheGrammar.tag_to_config) :
       \E k \in 1..Len(TheGrammar.tag_to_config[i][2].valid_children) :
         Cardinality(Members(TheGrammar.tag_to_config[i][2].valid_children[k][1])) > 1

\* The parents the walk enters whose tag has a rule.
RuledParents == {n \in RuledNodes : is_branch(Heap, n)}

\* tag t of key k of the rule of n occurs less than min, more than max times
ShortOf(n, k, t) == Count(n, t) < RuleOf(node[n].tag)[k][2].min

OverOf(n, k, t) ==
  RuleOf(node[n].tag)[k][2].bounded /\ Count(n, t) > RuleOf(node[n].tag)[k][2].max

EachWithin(n) ==
  \A k \in 1..Len(RuleOf(node[n].tag)) :
    \A t \in Members(RuleOf(node[n].tag)[k][1]) : ~ShortOf(n, k, t) /\ ~OverOf(n, k, t)

Tagged(n) == node[n].tag # NoTag

TaggedEntry(e) == Tagged(e[2])

Pruned ==
  [store |-> [c \in 1..Len(store) |->
                [store[c] EXCEPT !.order = SelectSeq(@, Tagged),
                                 !.nodes = SelectSeq(@, TaggedEntry)]],
   node |-> node]

C30_UntaggedIgnored ==
  last.op = "validate" =>
    /\ last.err = FreshOutcome(Pruned).err
    /\ last.tag = FreshOutcome(Pruned).tag
    /\ last.label = FreshOutcome(Pruned).parent

\* The nodes without a tag in a container the walk enters.
Skipped ==
  {n \in Nodes : ~Tagged(n) /\ (node[n].parent = Root
                                \/ \E m \in Walked(Root) : is_branch(Heap, m)
                                                          /\ node[m].value.v = node[n].parent)}

\* a valid tree in which a node without a tag holds a parent that lacks a
\* child its rule requires
C30_Witness ==
  /\ last.op = "validate"
  /\ last.err = ""
  /\ \E n \in Skipped :
       /\ is_branch(Heap, n)
       /\ \E m \in Range(store[node[n].value.v].order) :
            Tagged(m) /\ HasRule(node[m].tag) /\ is_branch(Heap, m) /\ Short(m)

(***************************************************************************)
(* C26.  builder.check(store) does not raise and returns the complete list *)
(* of the violations of the tree: for every node tagged P with more than M *)
(* children tagged T, where the rule of P declares T[:M], the list has a   *)
(* too-many message naming T and P; every child whose tag the rule of its  *)
(* parent does not allow, and every tag with fewer children than the       *)
(* minimum its parent requires, has its message too; and the list is empty *)
(* exactly when the tree has no violation.                                 *)
(***************************************************************************)
\* The rules the builder declares for the tag of node n.
RulesAt(n) == _get_validation_rules(TheBuilder.tags, node[n].tag)

Bound(n, T) == dict_get(RulesAt(n).child_cardinality, T)

TooManyAt(n, T) ==
  /\ dict_has(RulesAt(n).child_cardinality, T)
  /\ Bound(n, T).bounded
  /\ Count(n, T) > Bound(n, T).max

TooFewAt(n, T) ==
  /\ dict_has(RulesAt(n).child_cardinality, T)
  /\ Count(n, T) < Bound(n, T).min

\* The children of n that carry a tag the rule of n does not allow.
NotAllowedAt(n) ==
  {m \in Range(Children(n)) :
     RulesAt(n).has_valid /\ Tagged(m) /\ node[m].tag \notin RulesAt(n).valid_children}

\* The tags the children of n carry or the rule of n names.
TagsAt(n) ==
  {node[m].tag : m \in Range(Children(n))}
    \cup Range(dict_keys(RulesAt(n).child_cardinality))

NoViolation ==
  \A n \in Nodes :
    /\ NotAllowedAt(n) = {}
    /\ \A T \in TagsAt(n) : ~TooManyAt(n, T) /\ ~TooFewAt(n, T)

\* The messages of the kinds for tag T under parent tag P.
Reports(kinds, T, P) ==
  {i \in 1..Len(last.errors) :
     last.errors[i].kind \in kinds /\ last.errors[i].tag = T /\ last.errors[i].parent = P}

C26_CheckReportsAll ==
  last.op = "check" =>
    /\ last.err = ""
    /\ \A n \in Nodes : \A T \in TagsAt(n) :
         TooManyAt(n, T) =>
           Cardinality(Reports({"max"}, T, node[n].tag))
             >= Cardinality({m \in Nodes : node[m].tag = node[n].tag /\ TooManyAt(m, T)})
    /\ \A n \in Nodes : \A T \in TagsAt(n) :
         TooFewAt(n, T) => Reports({"min"}, T, node[n].tag) # {}
    /\ \A n \in Nodes : \A m \in NotAllowedAt(n) :
         Reports({"invalid_child", "no_children"}, node[m].tag, node[n].tag) # {}
    /\ last.errors = <<>> <=> NoViolation

====
